---- MODULE Spec2Model ----
(***************************************************************************)
(* Model of oneflow's Python interface layer:                              *)
(*   - nn/parallel/ddp.py: the DistributedDataParallel gradient-readiness  *)
(*     table, the allreduce gradient hook and the forward hook;            *)
(*   - experimental/interface_op_read_and_write.py: resolving, feeding and *)
(*     fetching interface blobs.                                           *)
(***************************************************************************)
EXTENDS Integers, Sequences, FiniteSets, TLC

\* ------------------------------------------------------------------------
\* Bounds
\* ------------------------------------------------------------------------
\* Largest number of parameters module.parameters() yields.
MaxParams == 3
\* Longest device_name list of a parallel configuration.
MaxDeviceNames == 2
\* Largest number of hierarchy dimensions of a parallel configuration.
MaxHierarchyDims == 2
\* Largest number of processes of the distributed job.
MaxWorldSize == 4
\* Largest number of elements of a tensor operand.
MaxElems == 4
\* Longest sequence of calls of the sharing-strategy functions.
MaxCalls == 4
\* Largest number of elements of a tensor given to Std.
MaxStdElems == 3
\* Largest number of forward calls on one Std instance.
MaxForwards == 2

\* ------------------------------------------------------------------------
\* State of the DistributedDataParallel wrapper (ddp.py)
\* ------------------------------------------------------------------------
VARIABLES
    numParams,   \* len(module.parameters()); parameters are 1..numParams in registration order
    ddp_state_for_reversed_params,  \* param -> <<state[0], state[1]>>  (ready, reduced)
    phase,       \* "idle" or "backward": whether autograd is running a backward pass
    forwarded,   \* the forward hook ran after the previous backward pass ended
    hasOutput,   \* forward has produced an output whose graph backward can run on
    passLog,     \* hooks fired in the current (or last) backward pass, in firing order:
                 \* [param, reduced: the parameters all-reduced by that hook in walk order, ret]
    world_size,  \* flow.distributed.get_world_size()
    rank,        \* flow.distributed.get_rank()
    local_rank,  \* flow.distributed.get_local_rank()
    wrapped,     \* DistributedDataParallel(module): "" before the call, then "returned"
                 \* or the exception it raised
    grad_hooks,  \* param -> the hooks param.register_hook was given, in registration order
    forward_hooks,  \* the hooks module.register_forward_hook was given
    grad         \* param -> param.grad, as the set of the numbers of divisions by
                 \* world_size its summands went through; {} is None

ddpVars == <<numParams, ddp_state_for_reversed_params, phase, forwarded, hasOutput,
            passLog, world_size, rank, local_rank, wrapped, grad_hooks, forward_hooks,
            grad>>

\* ------------------------------------------------------------------------
\* Parallel configuration handed to _GetInterfaceBlobObject
\* (interface_op_read_and_write.py)
\* ------------------------------------------------------------------------
VARIABLES
    parallel_conf,      \* what sess.ParallelConf4LazyInterfaceOpName(op_name) returned
    parallel_conf_out   \* [raised, conf]: the configuration handed to
                        \* builder.MakeLazyRefBlobObject, or the exception raised
                        \* before it; raised = "pending" while nothing has run

confVars == <<parallel_conf, parallel_conf_out>>

\* ------------------------------------------------------------------------
\* State of the interface-blob layer (interface_op_read_and_write.py)
\* ------------------------------------------------------------------------
VARIABLES
    numThreads,       \* number of Python threads calling into the layer
    rt_mode,          \* rt_mode.CurrentMode()
    eager_enabled,    \* oneflow._oneflow_internal.EagerExecutionEnabled()
    lazy_blob_cache,  \* the session's cache behind FindOrCreateLazyBlob: op name -> blob
    blob_data,        \* op name -> content of the interface op's blob in the runtime
    nextId,           \* identity of the next object the runtime creates
    builds,           \* op name -> number of CreateBlob builds run for it
    th,               \* thread -> frame of the call it is in
    lastResolved,     \* op name -> blob the last returned GetEagerInterfaceBlob gave
    lastFed,          \* op name -> array of the last feed that returned normally
    failedResolve     \* op name -> a GetEagerInterfaceBlob call of it has failed
                      \* an assertion

ifaceVars == <<numThreads, rt_mode, eager_enabled, lazy_blob_cache, blob_data, nextId,
              builds, th, lastResolved, lastFed, failedResolve>>

\* ------------------------------------------------------------------------
\* A call of Subtract / sub (nn/modules/math_ops.py)
\* ------------------------------------------------------------------------
VARIABLES
    sub_x,    \* the first operand
    sub_y,    \* the second operand
    sub_fn,   \* which function was called: "", "Subtract" or "sub"
    sub_out   \* [raised, shape, data]: what the call returned or raised

subVars == <<sub_x, sub_y, sub_fn, sub_out>>

\* ------------------------------------------------------------------------
\* Module state of multiprocessing/__init__.py
\* ------------------------------------------------------------------------
VARIABLES
    platform,                \* sys.platform
    sharing_strategy,        \* _sharing_strategy
    all_sharing_strategies,  \* _all_sharing_strategies
    calls                    \* the calls made so far, in order:
                             \* [fn, arg, raised, ret, ret_all]

shareVars == <<platform, sharing_strategy, all_sharing_strategies, calls>>

\* ------------------------------------------------------------------------
\* One Std module (nn/modules/math_ops.py) and the calls made on it
\* ------------------------------------------------------------------------
VARIABLES
    std,        \* the instance: dim, keepdim, and the attributes axis and reduce_count
    std_x,      \* the input of the last call
    std_out,    \* what the last call returned or raised
    std_prev,   \* [x, out]: input and outcome of the call before the last one
    forwards    \* number of forward calls made on the instance

stdVars == <<std, std_x, std_out, std_prev, forwards>>

vars == <<ddpVars, confVars, ifaceVars, subVars, shareVars, stdVars>>

Params == 1..numParams

\* OrderedDict(reversed([(x, [False, False]) for x in module.parameters()])):
\* the i-th key of the table is the (n+1-i)-th registered parameter.
TableOrder(n) == [i \in 1..n |-> n + 1 - i]

\* Position of parameter p in the table.
TablePos(n, p) == n + 1 - p

\* The walk of allreduce with the loop left at the first entry whose second
\* flag is set, where the code goes on to the next entry.
RECURSIVE WalkBreakOnDeleted(_, _, _, _)
WalkBreakOnDeleted(st, n, i, param) ==
    IF i > n THEN [st |-> st, reduced |-> <<>>, ret |-> FALSE]
    ELSE LET cur_param == TableOrder(n)[i]
             ready     == st[cur_param][1]
             deleted   == st[cur_param][2]
         IN  IF deleted THEN [st |-> st, reduced |-> <<>>, ret |-> FALSE]
             ELSE IF ready
                  THEN LET rest == WalkBreakOnDeleted(
                                       [st EXCEPT ![cur_param] = <<ready, TRUE>>],
                                       n, i + 1, param)
                       IN  [st      |-> rest.st,
                            reduced |-> <<cur_param>> \o rest.reduced,
                            ret     |-> rest.ret \/ cur_param = param]
                  ELSE [st |-> st, reduced |-> <<>>, ret |-> FALSE]

\* The walk of allreduce going on past an entry that is not ready, where the
\* code leaves the loop.
RECURSIVE WalkContinueOnNotReady(_, _, _, _)
WalkContinueOnNotReady(st, n, i, param) ==
    IF i > n THEN [st |-> st, reduced |-> <<>>, ret |-> FALSE]
    ELSE LET cur_param == TableOrder(n)[i]
             ready     == st[cur_param][1]
             deleted   == st[cur_param][2]
         IN  IF deleted THEN WalkContinueOnNotReady(st, n, i + 1, param)
             ELSE IF ready
                  THEN LET rest == WalkContinueOnNotReady(
                                       [st EXCEPT ![cur_param] = <<ready, TRUE>>],
                                       n, i + 1, param)
                       IN  [st      |-> rest.st,
                            reduced |-> <<cur_param>> \o rest.reduced,
                            ret     |-> rest.ret \/ cur_param = param]
                  ELSE WalkContinueOnNotReady(st, n, i + 1, param)

\* The walk of allreduce writing every reduced gradient into cur_param.grad,
\* the one of the running hook's parameter included, so that ret stays None.
RECURSIVE WalkReturningNone(_, _, _, _)
WalkReturningNone(st, n, i, param) ==
    IF i > n THEN [st |-> st, reduced |-> <<>>, ret |-> FALSE]
    ELSE LET cur_param == TableOrder(n)[i]
             ready     == st[cur_param][1]
             deleted   == st[cur_param][2]
         IN  IF deleted THEN WalkReturningNone(st, n, i + 1, param)
             ELSE IF ready
                  THEN LET rest == WalkReturningNone(
                                       [st EXCEPT ![cur_param] = <<ready, TRUE>>],
                                       n, i + 1, param)
                       IN  [st      |-> rest.st,
                            reduced |-> <<cur_param>> \o rest.reduced,
                            ret     |-> FALSE]
                  ELSE [st |-> st, reduced |-> <<>>, ret |-> FALSE]

\* The for loop of allreduce over ddp_state_for_reversed_params.items(), from
\* table position i on.  st is the table as the loop sees it, param the
\* parameter whose hook is running.  Result: the table after the loop, the
\* parameters handed to allreduce_module in order, and whether ret was set.
RECURSIVE Walk(_, _, _, _)
Walk(st, n, i, param) ==
    IF i > n THEN [st |-> st, reduced |-> <<>>, ret |-> FALSE]
    ELSE LET cur_param == TableOrder(n)[i]
             ready     == st[cur_param][1]
             deleted   == st[cur_param][2]
         IN  IF deleted THEN Walk(st, n, i + 1, param)                \* continue
             ELSE IF ready
                  THEN LET rest == Walk([st EXCEPT ![cur_param] = <<ready, TRUE>>],
                                        n, i + 1, param)
                       IN  [st      |-> rest.st,
                            reduced |-> <<cur_param>> \o rest.reduced,
                            ret     |-> rest.ret \/ cur_param = param]
                  ELSE [st |-> st, reduced |-> <<>>, ret |-> FALSE]    \* break

\* ------------------------------------------------------------------------
\* Parallel configurations
\* ------------------------------------------------------------------------
DeviceTags == {"cpu", "gpu"}

DeviceNames == {"0:0", "1:0-1"}

HierarchyDimValues == {1, 2}

SeqsUpTo(S, n) == UNION {[1..k -> S] : k \in 0..n}

\* A parallel configuration in either representation: form "pb" is the protobuf
\* message, form "cfg" an instance of
\* oneflow._oneflow_internal.oneflow.core.job.placement.ParallelConf.
\* has_hierarchy is HasField("hierarchy"), hierarchy_dim is hierarchy.dim.
ParallelConfs ==
    {c \in [form : {"pb", "cfg"}, device_tag : DeviceTags,
            device_name : SeqsUpTo(DeviceNames, MaxDeviceNames),
            has_hierarchy : BOOLEAN,
            hierarchy_dim : SeqsUpTo(HierarchyDimValues, MaxHierarchyDims)] :
        ~c.has_hierarchy => c.hierarchy_dim = <<>>}

\* placement_cfg.ParallelConf(): no device tag, no device name, no hierarchy.
EmptyParallelConfCfg ==
    [form |-> "cfg", device_tag |-> "", device_name |-> <<>>,
     has_hierarchy |-> FALSE, hierarchy_dim |-> <<>>]

\* The copying loop stopping one item short.
RECURSIVE AddAllDroppingLast(_, _, _)
AddAllDroppingLast(acc, xs, i) ==
    IF i >= Len(xs) THEN acc ELSE AddAllDroppingLast(Append(acc, xs[i]), xs, i + 1)

\* for x in xs: acc.add(x), from item i on.
RECURSIVE AddAll(_, _, _)
AddAll(acc, xs, i) ==
    IF i > Len(xs) THEN acc ELSE AddAll(Append(acc, xs[i]), xs, i + 1)

\* Lines 51-64 of _GetInterfaceBlobObject without the assertion of line 62.
TranslateParallelConfUnasserted(conf) ==
    IF conf.form = "cfg" THEN [raised |-> "", conf |-> conf]
    ELSE LET tagged == [EmptyParallelConfCfg EXCEPT !.device_tag = conf.device_tag]
             named  == [tagged EXCEPT
                           !.device_name = AddAll(tagged.device_name, conf.device_name, 1)]
         IN  IF conf.has_hierarchy
             THEN [raised |-> "",
                   conf   |-> [named EXCEPT
                                  !.has_hierarchy = TRUE,
                                  !.hierarchy_dim = AddAll(<<>>, conf.hierarchy_dim, 1)]]
             ELSE [raised |-> "", conf |-> named]

\* Lines 51-64 of _GetInterfaceBlobObject: the configuration passed on to
\* MakeLazyRefBlobObject (raised = ""), or the AssertionError raised when the
\* copied hierarchy has no dimension.
TranslateParallelConf(conf) ==
    IF conf.form = "cfg" THEN [raised |-> "", conf |-> conf]
    ELSE LET tagged == [EmptyParallelConfCfg EXCEPT !.device_tag = conf.device_tag]
             named  == [tagged EXCEPT
                           !.device_name = AddAll(tagged.device_name, conf.device_name, 1)]
         IN  IF conf.has_hierarchy
             THEN LET hierarchy == AddAll(<<>>, conf.hierarchy_dim, 1)
                  IN  IF Len(hierarchy) > 0
                      THEN [raised |-> "",
                            conf   |-> [named EXCEPT !.has_hierarchy = TRUE,
                                                     !.hierarchy_dim = hierarchy]]
                      ELSE [raised |-> "AssertionError", conf |-> named]
             ELSE [raised |-> "", conf |-> named]

\* allreduce taking the ready flag back from every entry it reduced.
allreduceConsumingReady(st, n, param) ==
    LET r == Walk([st EXCEPT ![param] = <<TRUE, st[param][2]>>], n, 1, param)
    IN  [r EXCEPT !.st = [p \in DOMAIN r.st |->
                            IF r.st[p][2] THEN <<FALSE, TRUE>> ELSE r.st[p]]]

\* allreducefn(...).allreduce(grad) for parameter param: mark it ready, then walk.
allreduce(st, n, param) ==
    Walk([st EXCEPT ![param] = <<TRUE, st[param][2]>>], n, 1, param)

\* A module that has no readiness table attached.
NoTable == <<>>

\* The two hooks registered in the other order.
register_hook_allreduce_first == <<"allreduce", "div_world_size">>

\* The hooks the constructor gives param.register_hook, in call order: the
\* lambda dividing by world_size, then allreducefn(...).
register_hook == <<"div_world_size", "allreduce">>

\* The module after the body of the constructor from line 47 on: the table
\* attached, the two gradient hooks on every parameter, the forward hook.
WrappedModule(module, n) ==
    [table         |-> [p \in 1..n |-> <<FALSE, FALSE>>],
     grad_hooks    |-> [p \in 1..n |-> module.grad_hooks[p] \o register_hook],
     forward_hooks |-> Append(module.forward_hooks, "hook")]

\* The constructor checking the ranks only after it attached the table and
\* registered the hooks.
DistributedDataParallelAssertLast(module, n, lrank, grank) ==
    [raised |-> IF lrank = grank THEN "" ELSE "AssertionError",
     module |-> WrappedModule(module, n)]

\* DistributedDataParallel(module) for a module of n parameters in a process
\* of local rank lrank and rank grank: [raised, module].
DistributedDataParallel(module, n, lrank, grank) ==
    IF lrank # grank
    THEN [raised |-> "AssertionError", module |-> module]
    ELSE [raised |-> "", module |-> WrappedModule(module, n)]

\* What the constructor reads and writes of the module.
Module ==
    [table         |-> ddp_state_for_reversed_params,
     grad_hooks    |-> grad_hooks,
     forward_hooks |-> forward_hooks]

\* A module nothing has been registered on.
PlainModule(n) ==
    [table |-> NoTable, grad_hooks |-> [p \in 1..n |-> <<>>], forward_hooks |-> <<>>]

\* The program calls DistributedDataParallel(module).
CallDistributedDataParallel ==
    /\ wrapped = ""
    /\ LET r == DistributedDataParallel(Module, numParams, local_rank, rank)
       IN  /\ wrapped' = IF r.raised = "" THEN "returned" ELSE r.raised
           /\ ddp_state_for_reversed_params' = r.module.table
           /\ grad_hooks' = r.module.grad_hooks
           /\ forward_hooks' = r.module.forward_hooks
    /\ UNCHANGED <<numParams, phase, forwarded, hasOutput, passLog,
                   world_size, rank, local_rank, grad,
                   confVars, ifaceVars, subVars, shareVars, stdVars>>

NextWrap == CallDistributedDataParallel

\* The forward hook's loop clearing state[0] alone.
ResetReadyOnly(st) == [p \in DOMAIN st |-> <<FALSE, st[p][2]>>]

\* The forward hook's loop: state[0], state[1] = False, False for every entry.
ResetTable(st) == [p \in DOMAIN st |-> <<FALSE, FALSE>>]

\* module(input): the registered forward hook runs after forward produced output.
hook ==
    /\ phase = "idle"
    /\ ddp_state_for_reversed_params' = ResetTable(ddp_state_for_reversed_params)
    /\ forwarded' = TRUE
    /\ hasOutput' = TRUE
    /\ UNCHANGED <<numParams, phase, passLog,
                   world_size, rank, local_rank, wrapped, grad_hooks, forward_hooks,
                   grad,
                   confVars, ifaceVars, subVars, shareVars, stdVars>>

\* loss.backward() starts: autograd begins a backward pass over the graph of an
\* output of the module (a retained graph or a second output allow another
\* backward pass with no forward pass in between).
BeginBackward ==
    /\ phase = "idle"
    /\ hasOutput
    /\ phase' = "backward"
    /\ passLog' = <<>>
    /\ UNCHANGED <<numParams, ddp_state_for_reversed_params, forwarded, hasOutput,
                   world_size, rank, local_rank, wrapped, grad_hooks, forward_hooks,
                   grad,
                   confVars, ifaceVars, subVars, shareVars, stdVars>>

FiredParams == {passLog[i].param : i \in 1..Len(passLog)}

\* A gradient autograd has just computed: no summand of it was divided yet.
RawGrad == {0}

\* lambda grad: grad / world_size
div_world_size(g) == {c + 1 : c \in g}

\* The arguments of the allreduce_module calls of one walk, in call order:
\* grad for the parameter whose hook is running, cur_param.grad for the others.
CollectiveValues(reduced, param, g, grads) ==
    [i \in 1..Len(reduced) |-> IF reduced[i] = param THEN g ELSE grads[reduced[i]]]

\* The hooks of param from the i-th on, applied to the gradient acc.g with the
\* table acc.st: a hook's result replaces the gradient unless it is None.
\* All-reducing a gradient sums it over the processes and divides nothing.
RECURSIVE RunHooks(_, _, _, _, _)
RunHooks(hooks, i, acc, n, param) ==
    IF i > Len(hooks) THEN acc
    ELSE IF hooks[i] = "div_world_size"
    THEN RunHooks(hooks, i + 1, [acc EXCEPT !.g = div_world_size(acc.g)], n, param)
    ELSE LET r == allreduce(acc.st, n, param)
         IN  RunHooks(hooks, i + 1,
                      [acc EXCEPT !.st = r.st,
                                  !.reduced = @ \o r.reduced,
                                  !.values = @ \o CollectiveValues(r.reduced, param,
                                                                   acc.g, grad),
                                  !.ret = r.ret],
                      n, param)

\* Autograd has computed the gradient of param and runs its hooks; each
\* parameter's hooks run at most once in a pass, in any order over parameters.
\* What the hooks leave of the gradient is accumulated into param.grad.
GradHook(param) ==
    /\ phase = "backward"
    /\ param \notin FiredParams
    /\ LET r == RunHooks(grad_hooks[param], 1,
                         [st |-> ddp_state_for_reversed_params, g |-> RawGrad,
                          reduced |-> <<>>, values |-> <<>>, ret |-> FALSE],
                         numParams, param)
       IN  /\ ddp_state_for_reversed_params' = r.st
           /\ grad' = [grad EXCEPT ![param] = @ \cup r.g]
           /\ passLog' = Append(passLog,
                  [param |-> param, reduced |-> r.reduced, ret |-> r.ret,
                   values |-> r.values])
    /\ UNCHANGED <<numParams, phase, forwarded, hasOutput,
                   world_size, rank, local_rank, wrapped, grad_hooks, forward_hooks,
                   confVars, ifaceVars, subVars, shareVars, stdVars>>

\* The backward pass returns; parameters that took no part in the loss never
\* had their hooks run.
EndBackward ==
    /\ phase = "backward"
    /\ phase' = "idle"
    /\ forwarded' = FALSE
    /\ UNCHANGED <<numParams, ddp_state_for_reversed_params, hasOutput, passLog,
                   world_size, rank, local_rank, wrapped, grad_hooks, forward_hooks,
                   grad,
                   confVars, ifaceVars, subVars, shareVars, stdVars>>

NextDDP ==
    \/ hook
    \/ BeginBackward
    \/ \E param \in Params : GradHook(param)
    \/ EndBackward

\* ------------------------------------------------------------------------
\* The session's interface ops and the arrays callers pass
\* ------------------------------------------------------------------------
\* Interface op names registered in the session.  v3 is an op whose attribute
\* lists two output bindings; v4 is one whose raw parallel configuration has a
\* hierarchy with no dimension and whose attribute lists no output binding.
OpNames == {"v1", "v2", "v3", "v4"}

\* Names callers may pass that the session has no interface op for.
UnknownOpNames == {"missing"}

Names == OpNames \cup UnknownOpNames

\* sess.OpAttribute4InterfaceOpName(op_name).output_bns
OutputBns(op_name) ==
    CASE op_name = "v3" -> <<"out", "out_1">>
      [] op_name = "v4" -> <<>>
      [] OTHER          -> <<"out">>

\* sess.JobName4InterfaceOpName(op_name)
JobName(op_name) == IF op_name = "v1" THEN "job_a" ELSE "job_b"

\* sess.ParallelConf4LazyInterfaceOpName(op_name): v1 is stored as a protobuf
\* message, v2 as a cfg object with a hierarchy.
ParallelConfOf(op_name) ==
    IF op_name = "v1"
    THEN [form |-> "pb", device_tag |-> "gpu", device_name |-> <<"0:0">>,
          has_hierarchy |-> FALSE, hierarchy_dim |-> <<>>]
    ELSE IF op_name = "v4"
    THEN [form |-> "pb", device_tag |-> "cpu", device_name |-> <<"0:0">>,
          has_hierarchy |-> TRUE, hierarchy_dim |-> <<>>]
    ELSE [form |-> "cfg", device_tag |-> "cpu", device_name |-> <<"0:0", "1:0-1">>,
          has_hierarchy |-> TRUE, hierarchy_dim |-> <<2, 1>>]

\* blob_object.op_arg_parallel_attr.is_mirrored() of the op's blob object.
IsMirrored(op_name) == op_name = "v2"

\* Element type and static shape of the op's blob in the runtime.
BlobDType(op_name) == IF op_name = "v1" THEN "flow.float32" ELSE "flow.int32"

BlobShape(op_name) == IF op_name = "v1" THEN <<3, 4>> ELSE <<2>>

NumpyDTypes == {"np.float32", "np.int32", "np.complex64"}

Shapes == {<<3, 4>>, <<2>>}

DataValues == {1, 2}

\* The ndarrays callers feed: element type, shape, content.
Arrays == [dtype : NumpyDTypes, shape : Shapes, data : DataValues]

NoArray == [dtype |-> "", shape |-> <<>>, data |-> 0]

\* dtype_util.convert_numpy_dtype_to_oneflow_dtype; "" when it raises.
convert_numpy_dtype_to_oneflow_dtype(dtype) ==
    CASE dtype = "np.float32" -> "flow.float32"
      [] dtype = "np.int32"   -> "flow.int32"
      [] OTHER                -> ""

\* dtype_util.convert_oneflow_dtype_to_numpy_dtype
convert_oneflow_dtype_to_numpy_dtype(dtype) ==
    CASE dtype = "flow.float32" -> "np.float32"
      [] dtype = "flow.int32"   -> "np.int32"
      [] OTHER                  -> ""

NoBlobObject ==
    [serial |-> 0, op_name |-> "", lazy_ref |-> FALSE, is_mirrored |-> FALSE,
     parallel_conf |-> EmptyParallelConfCfg]

NoBlob ==
    [id |-> 0, kind |-> "", lbi |-> [op_name |-> "", blob_name |-> ""],
     blob_object |-> NoBlobObject, job_name |-> ""]

\* A thread that is in no call.
IdleFrame ==
    [pc |-> "idle", kind |-> "", op_name |-> "", ndarray |-> NoArray,
     created |-> NoBlob, blob |-> NoBlob, remote_blob |-> NoBlob,
     value |-> NoArray, raised |-> "", trace |-> <<>>]

Threads == 1..numThreads

\* ------------------------------------------------------------------------
\* interface_op_read_and_write.py
\* ------------------------------------------------------------------------
\* sync_default_session_if_normal() synchronizing whatever the mode is.
sync_default_session_always(trace) == Append(trace, "sync_default_session")

\* sync_default_session_if_normal(), as the events it adds to a call's trace.
sync_default_session_if_normal(trace) ==
    IF rt_mode = "NORMAL_MODE" THEN Append(trace, "sync_default_session") ELSE trace

\* sess.FindOrCreateLazyBlob(op_name, Create): the lookup that decides whether
\* Create is called.
CacheHit(op_name) == lazy_blob_cache[op_name] # NoBlob

\* Where a call goes on once GetEagerInterfaceBlob has returned the blob.
AfterResolve(kind) ==
    CASE kind = "GetEagerInterfaceBlob"    -> "done"
      [] kind = "GetInterfaceBlobValue"    -> "numpy"
      [] kind = "FeedValueToInterfaceBlob" -> "FeedValueToInterfaceBlobObject"

\* GetEagerInterfaceBlob(op_name) up to the cache lookup, with CreateBlob
\* called whatever the cache holds.
GetEagerInterfaceBlobAlwaysCreate(f) ==
    LET tr == Append(sync_default_session_if_normal(f.trace), "GetDefaultSession")
    IN  [f EXCEPT !.trace = Append(tr, "cache_miss"), !.pc = "CreateBlob"]

\* GetEagerInterfaceBlob(op_name) up to the cache lookup of
\* sess.FindOrCreateLazyBlob(op_name, CreateBlob): on a hit the cached blob is
\* returned, on a miss CreateBlob runs next.
GetEagerInterfaceBlob(f) ==
    LET tr == Append(sync_default_session_if_normal(f.trace), "GetDefaultSession")
    IN  IF CacheHit(f.op_name)
        THEN [f EXCEPT !.trace = Append(tr, "cache_hit"),
                       !.blob = lazy_blob_cache[f.op_name],
                       !.pc = AfterResolve(f.kind)]
        ELSE [f EXCEPT !.trace = Append(tr, "cache_miss"), !.pc = "CreateBlob"]

\* _GetInterfaceBlobObject(builder, op_name): [raised, blob_object, trace].
GetInterfaceBlobObject(op_name, serial) ==
    IF eager_enabled
    THEN [raised |-> "", trace |-> <<>>,
          blob_object |-> [serial |-> 0, op_name |-> op_name, lazy_ref |-> FALSE,
                           is_mirrored |-> IsMirrored(op_name),
                           parallel_conf |-> EmptyParallelConfCfg]]
    ELSE LET conf == TranslateParallelConf(ParallelConfOf(op_name))
         IN  IF conf.raised # ""
             THEN [raised |-> conf.raised, trace |-> <<>>, blob_object |-> NoBlobObject]
             ELSE [raised |-> "", trace |-> <<"MakeLazyRefBlobObject">>,
                   blob_object |-> [serial |-> serial, op_name |-> op_name,
                                    lazy_ref |-> TRUE,
                                    is_mirrored |-> IsMirrored(op_name),
                                    parallel_conf |-> conf.conf]]

\* The blob Build wraps around a blob object, with the Consistent wrapper
\* taken whatever the placement attribute reports.
RemoteBlobAlwaysConsistent(id, op_name, blob_object) ==
    [id |-> id,
     kind |-> "EagerConsistentBlob",
     lbi |-> [op_name |-> op_name, blob_name |-> OutputBns(op_name)[1]],
     blob_object |-> blob_object,
     job_name |-> JobName(op_name)]

\* The blob Build wraps around a blob object (lines 80-92 and 114-131).
RemoteBlob(id, op_name, blob_object) ==
    [id |-> id,
     kind |-> IF blob_object.is_mirrored THEN "EagerMirroredBlob"
                                         ELSE "EagerConsistentBlob",
     lbi |-> [op_name |-> op_name, blob_name |-> OutputBns(op_name)[1]],
     blob_object |-> blob_object,
     job_name |-> JobName(op_name)]

\* A call raises: the exception leaves every LogicalRun and Await of the call.
Raise(f, raised, trace) ==
    [f EXCEPT !.pc = "done", !.raised = raised, !.trace = trace]

\* job_name = sess.JobName4InterfaceOpName(op_name) with the resolver's error
\* swallowed.
JobName4InterfaceOpNameIgnoringError(f, tr) ==
    [f EXCEPT !.trace = Append(tr, "JobName4InterfaceOpName")]

\* job_name = sess.JobName4InterfaceOpName(op_name) (lines 76 and 109) in the
\* call of frame f whose events so far are tr: for a name the session has no
\* interface op for, the resolver's error leaves the call.
JobName4InterfaceOpName(f, tr) ==
    IF f.op_name \in OpNames
    THEN [f EXCEPT !.trace = Append(tr, "JobName4InterfaceOpName")]
    ELSE Raise(f, "NotFound", Append(tr, "JobName4InterfaceOpName"))

\* A caller starts GetEagerInterfaceBlob(op_name).
CallGetEagerInterfaceBlob(t, op_name) ==
    /\ th[t].pc = "idle"
    /\ th' = [th EXCEPT ![t] = GetEagerInterfaceBlob(
                 [IdleFrame EXCEPT !.kind = "GetEagerInterfaceBlob",
                                   !.op_name = op_name])]
    /\ UNCHANGED <<numThreads, rt_mode, eager_enabled, lazy_blob_cache, blob_data,
                   nextId, builds, lastResolved, lastFed, failedResolve,
                   ddpVars, confVars, subVars, shareVars, stdVars>>

\* A caller starts GetInterfaceBlobValue(op_name): lines 107-113, into the
\* nested GetEagerInterfaceBlob.
CallGetInterfaceBlobValue(t, op_name) ==
    /\ th[t].pc = "idle"
    /\ LET f      == [IdleFrame EXCEPT !.kind = "GetInterfaceBlobValue",
                                       !.op_name = op_name]
           looked == JobName4InterfaceOpName(f,
                         Append(sync_default_session_if_normal(<<>>),
                                "GetDefaultSession"))
       IN  th' = [th EXCEPT ![t] =
                     IF looked.raised # ""
                     THEN looked
                     ELSE GetEagerInterfaceBlob(
                              [looked EXCEPT !.trace = Append(@, "LogicalRun")])]
    /\ UNCHANGED <<numThreads, rt_mode, eager_enabled, lazy_blob_cache, blob_data,
                   nextId, builds, lastResolved, lastFed, failedResolve,
                   ddpVars, confVars, subVars, shareVars, stdVars>>

\* A caller starts FeedValueToInterfaceBlob(op_name, ndarray): lines 160-164,
\* into the nested GetEagerInterfaceBlob.
CallFeedValueToInterfaceBlob(t, op_name, ndarray) ==
    /\ th[t].pc = "idle"
    /\ LET tr == Append(sync_default_session_if_normal(<<>>), "LogicalRun")
       IN  th' = [th EXCEPT ![t] = GetEagerInterfaceBlob(
                     [IdleFrame EXCEPT !.kind = "FeedValueToInterfaceBlob",
                                       !.op_name = op_name, !.ndarray = ndarray,
                                       !.trace = tr])]
    /\ UNCHANGED <<numThreads, rt_mode, eager_enabled, lazy_blob_cache, blob_data,
                   nextId, builds, lastResolved, lastFed, failedResolve,
                   ddpVars, confVars, subVars, shareVars, stdVars>>

\* A caller starts FeedValueToInterfaceBlobObject(blob_object, ndarray) on the
\* blob object of a blob it resolved before.
CallFeedValueToInterfaceBlobObject(t, op_name, ndarray) ==
    /\ th[t].pc = "idle"
    /\ lastResolved[op_name] # NoBlob
    /\ th' = [th EXCEPT ![t] =
                 [IdleFrame EXCEPT !.kind = "FeedValueToInterfaceBlobObject",
                                   !.op_name = op_name, !.ndarray = ndarray,
                                   !.blob = lastResolved[op_name],
                                   !.pc = "FeedValueToInterfaceBlobObject"]]
    /\ UNCHANGED <<numThreads, rt_mode, eager_enabled, lazy_blob_cache, blob_data,
                   nextId, builds, lastResolved, lastFed, failedResolve,
                   ddpVars, confVars, subVars, shareVars, stdVars>>

\* CreateBlob() with Build asserting only that the op attribute lists some
\* output binding.
CreateBlobAssertingSomeOutput(t) ==
    /\ th[t].pc = "CreateBlob"
    /\ LET f      == th[t]
           looked == JobName4InterfaceOpName(f, f.trace)
           tr     == Append(looked.trace, "LogicalRun")
           got    == GetInterfaceBlobObject(f.op_name, nextId)
       IN  IF looked.raised # ""
           THEN /\ th' = [th EXCEPT ![t] = looked]
                /\ UNCHANGED <<nextId, builds>>
           ELSE IF got.raised # ""
           THEN /\ th' = [th EXCEPT ![t] = Raise(f, got.raised, tr \o got.trace)]
                /\ UNCHANGED <<nextId, builds>>
           ELSE IF Len(OutputBns(f.op_name)) < 1
           THEN /\ th' = [th EXCEPT ![t] = Raise(f, "AssertionError", tr \o got.trace)]
                /\ UNCHANGED <<nextId, builds>>
           ELSE /\ th' = [th EXCEPT ![t] =
                           [f EXCEPT !.created = RemoteBlob(nextId, f.op_name,
                                                            got.blob_object),
                                     !.trace = tr \o got.trace
                                                  \o <<"Yield", "LogicalRun_end">>,
                                     !.pc = "store"]]
                /\ nextId' = nextId + 1
                /\ builds' = [builds EXCEPT ![f.op_name] = @ + 1]
    /\ UNCHANGED <<numThreads, rt_mode, eager_enabled, lazy_blob_cache, blob_data,
                   lastResolved, lastFed, failedResolve,
                   ddpVars, confVars, subVars, shareVars, stdVars>>

\* CreateBlob(): the job name, then Await(1, AsyncGetInterfaceBlob), whose
\* LogicalRun runs Build and yields the new blob.
CreateBlob(t) ==
    /\ th[t].pc = "CreateBlob"
    /\ LET f      == th[t]
           looked == JobName4InterfaceOpName(f, f.trace)
           tr     == Append(looked.trace, "LogicalRun")
           got    == GetInterfaceBlobObject(f.op_name, nextId)
       IN  IF looked.raised # ""
           THEN /\ th' = [th EXCEPT ![t] = looked]
                /\ UNCHANGED <<nextId, builds>>
           ELSE IF got.raised # ""
           THEN /\ th' = [th EXCEPT ![t] = Raise(f, got.raised, tr \o got.trace)]
                /\ UNCHANGED <<nextId, builds>>
           ELSE IF Len(OutputBns(f.op_name)) # 1
           THEN /\ th' = [th EXCEPT ![t] = Raise(f, "AssertionError", tr \o got.trace)]
                /\ UNCHANGED <<nextId, builds>>
           ELSE /\ th' = [th EXCEPT ![t] =
                           [f EXCEPT !.created = RemoteBlob(nextId, f.op_name,
                                                            got.blob_object),
                                     !.trace = tr \o got.trace
                                                  \o <<"Yield", "LogicalRun_end">>,
                                     !.pc = "store"]]
                /\ nextId' = nextId + 1
                /\ builds' = [builds EXCEPT ![f.op_name] = @ + 1]
    /\ UNCHANGED <<numThreads, rt_mode, eager_enabled, lazy_blob_cache, blob_data,
                   lastResolved, lastFed, failedResolve,
                   ddpVars, confVars, subVars, shareVars, stdVars>>

\* sess.FindOrCreateLazyBlob stores what Create returned under op_name and
\* returns the cache entry.
StoreLazyBlob(t) ==
    /\ th[t].pc = "store"
    /\ LET f == th[t]
       IN  /\ lazy_blob_cache' = [lazy_blob_cache EXCEPT ![f.op_name] = f.created]
           /\ th' = [th EXCEPT ![t] = [f EXCEPT !.blob = f.created,
                                                !.pc = AfterResolve(f.kind)]]
    /\ UNCHANGED <<numThreads, rt_mode, eager_enabled, blob_data, nextId, builds,
                   lastResolved, lastFed, failedResolve,
                   ddpVars, confVars, subVars, shareVars, stdVars>>

\* remote_blob.numpy(): the content of the blob behind blob_object as an
\* ndarray of the blob's element type and shape.
numpy(blob_object) ==
    [dtype |-> convert_oneflow_dtype_to_numpy_dtype(BlobDType(blob_object.op_name)),
     shape |-> BlobShape(blob_object.op_name),
     data  |-> blob_data[blob_object.op_name]]

\* The rest of GetInterfaceBlobValue's build calling Yield(value) a second time.
GetInterfaceBlobValueReadYieldingTwice(t) ==
    /\ th[t].pc = "numpy"
    /\ LET f == th[t]
           remote_blob == RemoteBlob(nextId, f.op_name, f.blob.blob_object)
       IN  IF Len(OutputBns(f.op_name)) # 1
           THEN th' = [th EXCEPT ![t] = Raise(f, "AssertionError", f.trace)]
           ELSE th' = [th EXCEPT ![t] =
                          [f EXCEPT !.remote_blob = remote_blob,
                                    !.value = numpy(remote_blob.blob_object),
                                    !.trace = f.trace
                                       \o <<"numpy", "Yield", "Yield", "LogicalRun_end">>,
                                    !.pc = "done"]]
    /\ UNCHANGED <<numThreads, rt_mode, eager_enabled, lazy_blob_cache, blob_data,
                   nextId, builds, lastResolved, lastFed, failedResolve,
                   ddpVars, confVars, subVars, shareVars, stdVars>>

\* The rest of GetInterfaceBlobValue's build (lines 114-133), and the return
\* of Await.
GetInterfaceBlobValueRead(t) ==
    /\ th[t].pc = "numpy"
    /\ LET f == th[t]
           remote_blob == RemoteBlob(nextId, f.op_name, f.blob.blob_object)
       IN  IF Len(OutputBns(f.op_name)) # 1
           THEN th' = [th EXCEPT ![t] = Raise(f, "AssertionError", f.trace)]
           ELSE th' = [th EXCEPT ![t] =
                          [f EXCEPT !.remote_blob = remote_blob,
                                    !.value = numpy(remote_blob.blob_object),
                                    !.trace = f.trace
                                       \o <<"numpy", "Yield", "LogicalRun_end">>,
                                    !.pc = "done"]]
    /\ UNCHANGED <<numThreads, rt_mode, eager_enabled, lazy_blob_cache, blob_data,
                   nextId, builds, lastResolved, lastFed, failedResolve,
                   ddpVars, confVars, subVars, shareVars, stdVars>>

\* The build of FeedValueToInterfaceBlobObject with the call of
\* push_util.FeedValueToEagerBlob left out.
FeedBuildWithoutPush(blob_object, ndarray) ==
    LET dtype == convert_numpy_dtype_to_oneflow_dtype(ndarray.dtype)
    IN  IF dtype = ""
        THEN [raised |-> "NotImplementedError", trace |-> <<>>, pushed |-> FALSE]
        ELSE [raised |-> "", trace |-> <<>>, pushed |-> FALSE]

\* The build of FeedValueToInterfaceBlobObject (lines 143-154): the tensor
\* definition from the array's shape and converted element type, then
\* push_util.FeedValueToEagerBlob, which takes the array only if it has the
\* element type and shape of the blob.
FeedBuild(blob_object, ndarray) ==
    LET dtype == convert_numpy_dtype_to_oneflow_dtype(ndarray.dtype)
    IN  IF dtype = ""
        THEN [raised |-> "NotImplementedError", trace |-> <<>>, pushed |-> FALSE]
        ELSE IF \/ dtype # BlobDType(blob_object.op_name)
                \/ ndarray.shape # BlobShape(blob_object.op_name)
        THEN [raised |-> "AssertionError", trace |-> <<"FeedValueToEagerBlob">>,
              pushed |-> FALSE]
        ELSE [raised |-> "", trace |-> <<"FeedValueToEagerBlob">>, pushed |-> TRUE]

\* FeedValueToInterfaceBlobObject(blob_object, ndarray) pushing into the blob
\* of the first interface op whatever blob object it was given.
FeedValueToInterfaceBlobObjectIntoFirstOp(t) ==
    /\ th[t].pc = "FeedValueToInterfaceBlobObject"
    /\ LET f   == th[t]
           tr  == Append(sync_default_session_if_normal(f.trace), "LogicalRun")
           fed == FeedBuild(f.blob.blob_object, f.ndarray)
           out == IF f.kind = "FeedValueToInterfaceBlob"
                  THEN <<"LogicalRun_end", "Yield", "LogicalRun_end">>
                  ELSE <<"LogicalRun_end">>
       IN  /\ th' = [th EXCEPT ![t] =
                       IF fed.raised # ""
                       THEN Raise(f, fed.raised, tr \o fed.trace)
                       ELSE [f EXCEPT !.trace = tr \o fed.trace \o out,
                                      !.pc = "done"]]
           /\ blob_data' = IF fed.pushed
                           THEN [blob_data EXCEPT
                                    !["v1"] = f.ndarray.data]
                           ELSE blob_data
    /\ UNCHANGED <<numThreads, rt_mode, eager_enabled, lazy_blob_cache, nextId, builds,
                   lastResolved, lastFed, failedResolve,
                   ddpVars, confVars, subVars, shareVars, stdVars>>

\* FeedValueToInterfaceBlobObject(blob_object, ndarray), lines 141-156; inside
\* FeedValueToInterfaceBlob it is followed by Yield() and the end of the outer
\* LogicalRun.
FeedValueToInterfaceBlobObject(t) ==
    /\ th[t].pc = "FeedValueToInterfaceBlobObject"
    /\ LET f   == th[t]
           tr  == Append(sync_default_session_if_normal(f.trace), "LogicalRun")
           fed == FeedBuild(f.blob.blob_object, f.ndarray)
           out == IF f.kind = "FeedValueToInterfaceBlob"
                  THEN <<"LogicalRun_end", "Yield", "LogicalRun_end">>
                  ELSE <<"LogicalRun_end">>
       IN  /\ th' = [th EXCEPT ![t] =
                       IF fed.raised # ""
                       THEN Raise(f, fed.raised, tr \o fed.trace)
                       ELSE [f EXCEPT !.trace = tr \o fed.trace \o out,
                                      !.pc = "done"]]
           /\ blob_data' = IF fed.pushed
                           THEN [blob_data EXCEPT
                                    ![f.blob.blob_object.op_name] = f.ndarray.data]
                           ELSE blob_data
    /\ UNCHANGED <<numThreads, rt_mode, eager_enabled, lazy_blob_cache, nextId, builds,
                   lastResolved, lastFed, failedResolve,
                   ddpVars, confVars, subVars, shareVars, stdVars>>

\* The call returns to its caller (or its exception reaches the caller).
Return(t) ==
    /\ th[t].pc = "done"
    /\ LET f == th[t]
       IN  /\ lastResolved' =
                  IF f.kind = "GetEagerInterfaceBlob" /\ f.raised = ""
                  THEN [lastResolved EXCEPT ![f.op_name] = f.blob]
                  ELSE lastResolved
           /\ lastFed' =
                  IF /\ f.kind \in {"FeedValueToInterfaceBlob",
                                    "FeedValueToInterfaceBlobObject"}
                     /\ f.raised = ""
                  THEN [lastFed EXCEPT ![f.blob.blob_object.op_name] = f.ndarray]
                  ELSE lastFed
           /\ failedResolve' =
                  IF f.kind = "GetEagerInterfaceBlob" /\ f.raised = "AssertionError"
                  THEN [failedResolve EXCEPT ![f.op_name] = TRUE]
                  ELSE failedResolve
    /\ th' = [th EXCEPT ![t] = IdleFrame]
    /\ UNCHANGED <<numThreads, rt_mode, eager_enabled, lazy_blob_cache, blob_data,
                   nextId, builds,
                   ddpVars, confVars, subVars, shareVars, stdVars>>

NextIface ==
    \/ \E t \in Threads, op_name \in Names : CallGetEagerInterfaceBlob(t, op_name)
    \/ \E t \in Threads, op_name \in Names : CallGetInterfaceBlobValue(t, op_name)
    \/ \E t \in Threads, op_name \in Names, ndarray \in Arrays :
          CallFeedValueToInterfaceBlob(t, op_name, ndarray)
    \/ \E t \in Threads, op_name \in OpNames, ndarray \in Arrays :
          CallFeedValueToInterfaceBlobObject(t, op_name, ndarray)
    \/ \E t \in Threads : CreateBlob(t)
    \/ \E t \in Threads : StoreLazyBlob(t)
    \/ \E t \in Threads : GetInterfaceBlobValueRead(t)
    \/ \E t \in Threads : FeedValueToInterfaceBlobObject(t)
    \/ \E t \in Threads : Return(t)

\* Callers that only resolve.
NextResolve ==
    \/ \E t \in Threads, op_name \in Names : CallGetEagerInterfaceBlob(t, op_name)
    \/ \E t \in Threads : CreateBlob(t)
    \/ \E t \in Threads : StoreLazyBlob(t)
    \/ \E t \in Threads : Return(t)

ConfPending == [raised |-> "pending", conf |-> EmptyParallelConfCfg]

\* ------------------------------------------------------------------------
\* nn/modules/math_ops.py: Subtract and the tensor method sub
\* ------------------------------------------------------------------------
ElemValues == {1, 2}

\* Number of elements of an array of the given shape (ranks 0, 1 and 2).
NumElems(shape) ==
    CASE Len(shape) = 0 -> 1
      [] Len(shape) = 1 -> shape[1]
      [] OTHER          -> shape[1] * shape[2]

TensorShapes ==
    {shape \in SeqsUpTo(1..MaxElems, 2) : shape # <<>> /\ NumElems(shape) <= MaxElems}

\* flow.Tensor operands: shape and the elements in row-major order.
Tensors ==
    UNION {[kind : {"tensor"}, shape : {shape},
            data : [1..NumElems(shape) -> ElemValues]] : shape \in TensorShapes}

\* Python int and float operands.
Scalars == [kind : {"scalar"}, shape : {<<>>}, data : [1..1 -> ElemValues]]

NoOperand == [kind |-> "", shape |-> <<>>, data |-> <<>>]

\* A shape as rows and columns, as broadcasting aligns it.
Pad(shape) ==
    CASE Len(shape) = 0 -> <<1, 1>>
      [] Len(shape) = 1 -> <<1, shape[1]>>
      [] OTHER          -> shape

Max(a, b) == IF a >= b THEN a ELSE b

Broadcastable(a, b) ==
    \A d \in 1..2 : Pad(a)[d] = Pad(b)[d] \/ Pad(a)[d] = 1 \/ Pad(b)[d] = 1

BroadcastShape(a, b) ==
    LET rows == Max(Pad(a)[1], Pad(b)[1])
        cols == Max(Pad(a)[2], Pad(b)[2])
    IN  CASE Max(Len(a), Len(b)) = 0 -> <<>>
          [] Max(Len(a), Len(b)) = 1 -> <<cols>>
          [] OTHER                   -> <<rows, cols>>

\* Element (i, j) of operand t stretched by broadcasting.
At(t, i, j) ==
    LET p == Pad(t.shape)
    IN  t.data[((IF p[1] = 1 THEN 1 ELSE i) - 1) * p[2] + (IF p[2] = 1 THEN 1 ELSE j)]

Raised(error) == [raised |-> error, shape |-> <<>>, data |-> <<>>]

Returned(t) == [raised |-> "", shape |-> t.shape, data |-> t.data]

NotCalled == [raised |-> "pending", shape |-> <<>>, data |-> <<>>]

\* np.subtract(a, b), any operand a Python number or an array.
np_subtract(a, b) ==
    IF ~Broadcastable(a.shape, b.shape) THEN Raised("ValueError")
    ELSE LET shape == BroadcastShape(a.shape, b.shape)
             cols  == Pad(shape)[2]
         IN  [raised |-> "", shape |-> shape,
              data |-> [k \in 1..NumElems(shape) |->
                           At(a, ((k - 1) \div cols) + 1, ((k - 1) % cols) + 1)
                             - At(b, ((k - 1) \div cols) + 1, ((k - 1) % cols) + 1)]]

\* flow.F.mul_scalar(t, alpha), also -1 * t
mul_scalar(t, alpha) == [t EXCEPT !.data = [k \in DOMAIN t.data |-> t.data[k] * alpha]]

\* flow.F.add_scalar(t, alpha)
add_scalar(t, alpha) == [t EXCEPT !.data = [k \in DOMAIN t.data |-> t.data[k] + alpha]]

\* ScalarSubByTensor()(t, s): flow.F.sub_scalar_by_tensor(t, s), the one
\* element of s subtracted from every element of t.
ScalarSubByTensor(t, s) ==
    IF NumElems(s.shape) # 1 THEN Raised("RuntimeError")
    ELSE Returned([t EXCEPT !.data = [k \in DOMAIN t.data |-> t.data[k] - s.data[1]]])

\* BroadcastSub()(a, b): flow.F.broadcast_sub(a, b)
BroadcastSub(a, b) ==
    IF ~Broadcastable(a.shape, b.shape) THEN Raised("RuntimeError")
    ELSE np_subtract(a, b)

\* Subtract().forward(x, y), lines 812-824.
Subtract_forward(x, y) ==
    IF x.kind = "scalar" THEN Returned(add_scalar(mul_scalar(y, -1), x.data[1]))
    ELSE IF y.kind = "scalar" THEN Returned(add_scalar(x, -1 * y.data[1]))
    ELSE IF x.shape = y.shape THEN BroadcastSub(x, y)
    ELSE IF x.shape = <<1>> THEN ScalarSubByTensor(y, x)
    ELSE IF y.shape = <<1>> THEN ScalarSubByTensor(x, y)
    ELSE BroadcastSub(x, y)

\* _sub(input, other), the tensor method sub, lines 223-232.
sub(input, other) ==
    IF input.kind = "scalar"
    THEN Returned(add_scalar(mul_scalar(other, -1), input.data[1]))
    ELSE IF other.kind = "scalar" THEN Returned(add_scalar(input, -1 * other.data[1]))
    ELSE IF input.shape = other.shape THEN BroadcastSub(input, other)
    ELSE IF other.shape = <<1>> THEN ScalarSubByTensor(input, other)
    ELSE BroadcastSub(input, other)

\* The program calls flow.Sub()(x, y).
CallSubtract ==
    /\ sub_fn = ""
    /\ sub_fn' = "Subtract"
    /\ sub_out' = Subtract_forward(sub_x, sub_y)
    /\ UNCHANGED <<sub_x, sub_y, ddpVars, confVars, ifaceVars, shareVars, stdVars>>

\* The program calls flow.sub(x, y).
CallSub ==
    /\ sub_fn = ""
    /\ sub_fn' = "sub"
    /\ sub_out' = sub(sub_x, sub_y)
    /\ UNCHANGED <<sub_x, sub_y, ddpVars, confVars, ifaceVars, shareVars, stdVars>>

NextSub ==
    \/ CallSubtract
    \/ CallSub


\* ------------------------------------------------------------------------
\* multiprocessing/__init__.py: the sharing strategy
\* ------------------------------------------------------------------------
Platforms == {"darwin", "win32", "linux"}

\* Lines 25-30: the module-level defaults for sys.platform.
DefaultSharingStrategy(sys_platform) ==
    IF sys_platform = "darwin" \/ sys_platform = "win32"
    THEN "file_system" ELSE "file_descriptor"

DefaultAllSharingStrategies(sys_platform) ==
    IF sys_platform = "darwin" \/ sys_platform = "win32"
    THEN {"file_system"} ELSE {"file_descriptor", "file_system"}

\* Arguments callers pass to set_sharing_strategy.
StrategyArgs == {"file_system", "file_descriptor", "shared_memory"}

\* set_sharing_strategy without its assertion.
set_sharing_strategy_unchecked(new_strategy) ==
    [raised |-> "", sharing_strategy |-> new_strategy]

\* set_sharing_strategy(new_strategy): [raised, sharing_strategy], the second
\* being _sharing_strategy after the call.
set_sharing_strategy(new_strategy) ==
    IF new_strategy \notin all_sharing_strategies
    THEN [raised |-> "AssertionError", sharing_strategy |-> sharing_strategy]
    ELSE [raised |-> "", sharing_strategy |-> new_strategy]

\* The program calls set_sharing_strategy(new_strategy).
CallSetSharingStrategy(new_strategy) ==
    /\ Len(calls) < MaxCalls
    /\ LET r == set_sharing_strategy(new_strategy)
       IN  /\ sharing_strategy' = r.sharing_strategy
           /\ calls' = Append(calls,
                  [fn |-> "set_sharing_strategy", arg |-> new_strategy,
                   raised |-> r.raised, ret |-> "", ret_all |-> {}])
    /\ UNCHANGED <<platform, all_sharing_strategies,
                   ddpVars, confVars, ifaceVars, subVars, stdVars>>

\* The program calls get_sharing_strategy().
get_sharing_strategy ==
    /\ Len(calls) < MaxCalls
    /\ calls' = Append(calls,
           [fn |-> "get_sharing_strategy", arg |-> "", raised |-> "",
            ret |-> sharing_strategy, ret_all |-> {}])
    /\ UNCHANGED <<platform, sharing_strategy, all_sharing_strategies,
                   ddpVars, confVars, ifaceVars, subVars, stdVars>>

\* The program calls get_all_sharing_strategies().
get_all_sharing_strategies ==
    /\ Len(calls) < MaxCalls
    /\ calls' = Append(calls,
           [fn |-> "get_all_sharing_strategies", arg |-> "", raised |-> "",
            ret |-> "", ret_all |-> all_sharing_strategies])
    /\ UNCHANGED <<platform, sharing_strategy, all_sharing_strategies,
                   ddpVars, confVars, ifaceVars, subVars, stdVars>>

NextSharing ==
    \/ \E new_strategy \in StrategyArgs : CallSetSharingStrategy(new_strategy)
    \/ get_sharing_strategy
    \/ get_all_sharing_strategies

\* ------------------------------------------------------------------------
\* nn/modules/math_ops.py: Std and the tensor method std
\* ------------------------------------------------------------------------
\* The dim argument of Std: None, one int, or a list of ints.
NoDim == [kind |-> "None", val |-> <<>>]

StdDims ==
    {NoDim,
     [kind |-> "int", val |-> <<0>>],
     [kind |-> "int", val |-> <<1>>],
     [kind |-> "list", val |-> <<>>],
     [kind |-> "list", val |-> <<0, 1>>]}

\* The tensors given to Std.
StdTensors == {x \in Tensors : NumElems(x.shape) <= MaxStdElems}

\* Std.__init__(dim, unbiased=False, keepdim): reduce_count starts at 1; the
\* attribute axis is first assigned by forward.
NewStd(dim, keepdim) ==
    [dim |-> dim, keepdim |-> keepdim, reduce_count |-> 1, axis |-> <<>>]

NoForward == [x |-> NoOperand, out |-> NotCalled]

\* _check_axis(axis, shape): the list of the dimensions to reduce, every
\* dimension for None, or an AssertionError for a dimension the shape lacks.
check_axis(dim, shape) ==
    LET ndim == Len(shape)
        axis == IF dim.kind = "None" THEN [d \in 1..ndim |-> d - 1] ELSE dim.val
    IN  IF \A k \in 1..Len(axis) : 0 - ndim <= axis[k] /\ axis[k] <= ndim - 1
        THEN [raised |-> "",
              axis   |-> [k \in 1..Len(axis) |->
                             IF axis[k] < 0 THEN axis[k] + ndim ELSE axis[k]]]
        ELSE [raised |-> "AssertionError", axis |-> <<>>]

\* for i in self.axis: self.reduce_count *= x.shape[i], from item k on.
RECURSIVE MulShape(_, _, _, _)
MulShape(reduce_count, shape, axis, k) ==
    IF k > Len(axis) THEN reduce_count
    ELSE MulShape(reduce_count * shape[axis[k] + 1], shape, axis, k + 1)

RECURSIVE GCD(_, _)
GCD(a, b) == IF b = 0 THEN a ELSE GCD(b, a % b)

\* The number num / den (num >= 0, den > 0) in lowest terms.
Frac(num, den) ==
    LET g == GCD(num, den) IN [num |-> num \div g, den |-> den \div g]

\* The rows-and-columns dimensions (1 or 2) the axis list reduces.
ReducedDims(shape, axis) ==
    {IF Len(shape) = 1 THEN 2 ELSE axis[k] + 1 : k \in 1..Len(axis)}

\* Rows and columns of the reduction's result.
ReducedPad(shape, axis) ==
    [d \in 1..2 |-> IF d \in ReducedDims(shape, axis) THEN 1 ELSE Pad(shape)[d]]

\* The shape flow.sum(x, axis, keepdim) returns.
ReducedShape(shape, axis, keepdim) ==
    LET reduced == {axis[k] + 1 : k \in 1..Len(axis)}
    IN  IF keepdim
        THEN [d \in 1..Len(shape) |-> IF d \in reduced THEN 1 ELSE shape[d]]
        ELSE CASE reduced = 1..Len(shape) -> <<>>
               [] reduced = {1}           -> <<shape[2]>>
               [] OTHER                   -> <<shape[1]>>

\* The elements of x that the reduction adds up into its element (i, j).
Group(shape, axis, i, j) ==
    LET reduced == ReducedDims(shape, axis)
    IN  {<<r, c>> \in (1..Pad(shape)[1]) \X (1..Pad(shape)[2]) :
            /\ 1 \in reduced \/ r = i
            /\ 2 \in reduced \/ c = j}

RECURSIVE SumOver(_, _, _)
SumOver(x, cells, squared) ==
    IF cells = {} THEN 0
    ELSE LET cell == CHOOSE cell \in cells : TRUE
             v    == At(x, cell[1], cell[2])
         IN  (IF squared THEN v * v ELSE v) + SumOver(x, cells \ {cell}, squared)

\* sqrt_op(subtract_op(sum, square)) of lines 950-958 for one element of the
\* result: sum = flow.sum(x * x) / reduce_count, square = (flow.sum(x) /
\* reduce_count) ** 2.  The element is the square root of the fraction
\* returned.
StdElement(x, axis, reduce_count, i, j) ==
    LET cells == Group(x.shape, axis, i, j)
        s2    == SumOver(x, cells, TRUE)
        s1    == SumOver(x, cells, FALSE)
    IN  Frac(s2 * reduce_count - s1 * s1, reduce_count * reduce_count)

\* flow.zeros(size=shape)
zeros(shape) ==
    [raised |-> "", shape |-> shape,
     data |-> [k \in 1..NumElems(shape) |-> Frac(0, 1)]]

\* The else branch of Std.forward with the given divisor.
StdResult(self, x, reduce_count) ==
    LET rows == ReducedPad(x.shape, self.axis)[1]
        cols == ReducedPad(x.shape, self.axis)[2]
    IN  [raised |-> "",
         shape  |-> ReducedShape(x.shape, self.axis, self.keepdim),
         data   |-> [k \in 1..(rows * cols) |->
                        StdElement(x, self.axis, reduce_count,
                                   ((k - 1) \div cols) + 1, ((k - 1) % cols) + 1)]]

\* Std.forward(x): [self, out], the instance after the call and what the call
\* returned or raised.  _check_axis returns a list, so an empty axis takes the
\* first branch and line 947 is not reached.
Std_forward(self, x) ==
    LET checked == check_axis(self.dim, x.shape)
        seen    == [self EXCEPT !.axis = checked.axis]
        counted == [seen EXCEPT
                       !.reduce_count = MulShape(seen.reduce_count, x.shape,
                                                 seen.axis, 1)]
    IN  IF checked.raised # ""
        THEN [self |-> self, out |-> Raised(checked.raised)]
        ELSE IF Len(seen.axis) = 0
        THEN [self |-> seen, out |-> zeros(x.shape)]
        ELSE [self |-> counted, out |-> StdResult(counted, x, counted.reduce_count)]

\* std_op(tensor, dim, unbiased, keepdim): Std(dim, unbiased, keepdim)(tensor)
std_op(tensor, dim, keepdim) == Std_forward(NewStd(dim, keepdim), tensor).out

\* The instance is called on x.
CallStdForward(x) ==
    /\ forwards < MaxForwards
    /\ LET r == Std_forward(std, x)
       IN  /\ std' = r.self
           /\ std_out' = r.out
    /\ std_x' = x
    /\ std_prev' = [x |-> std_x, out |-> std_out]
    /\ forwards' = forwards + 1
    /\ UNCHANGED <<ddpVars, confVars, ifaceVars, subVars, shareVars>>

NextStd == \E x \in StdTensors : CallStdForward(x)

\* ------------------------------------------------------------------------
\* Specifications
\* ------------------------------------------------------------------------
\* A module wrapped by DistributedDataParallel, through forward and backward
\* passes.  Nothing calls the interface-blob layer.
InitDDP ==
    /\ numParams \in 1..MaxParams
    /\ world_size \in 1..MaxWorldSize
    /\ rank \in 0..(world_size - 1)
    /\ local_rank = rank
    /\ wrapped = "returned"
    /\ ddp_state_for_reversed_params =
          DistributedDataParallel(PlainModule(numParams), numParams,
                                  local_rank, rank).module.table
    /\ grad_hooks =
          DistributedDataParallel(PlainModule(numParams), numParams,
                                  local_rank, rank).module.grad_hooks
    /\ forward_hooks =
          DistributedDataParallel(PlainModule(numParams), numParams,
                                  local_rank, rank).module.forward_hooks
    /\ grad = [p \in 1..numParams |-> {}]
    /\ phase = "idle"
    /\ forwarded = FALSE
    /\ hasOutput = FALSE
    /\ passLog = <<>>
    /\ parallel_conf = EmptyParallelConfCfg
    /\ parallel_conf_out = ConfPending
    /\ numThreads = 1
    /\ rt_mode = "NORMAL_MODE"
    /\ eager_enabled = FALSE
    /\ lazy_blob_cache = [op_name \in Names |-> NoBlob]
    /\ blob_data = [op_name \in OpNames |-> 0]
    /\ nextId = 1
    /\ builds = [op_name \in Names |-> 0]
    /\ th = [t \in 1..1 |-> IdleFrame]
    /\ lastResolved = [op_name \in Names |-> NoBlob]
    /\ lastFed = [op_name \in Names |-> NoArray]
    /\ failedResolve = [op_name \in Names |-> FALSE]
    /\ sub_x = NoOperand
    /\ sub_y = NoOperand
    /\ sub_fn = ""
    /\ sub_out = NotCalled
    /\ platform = "linux"
    /\ sharing_strategy = DefaultSharingStrategy(platform)
    /\ all_sharing_strategies = DefaultAllSharingStrategies(platform)
    /\ calls = <<>>
    /\ std = NewStd(NoDim, FALSE)
    /\ std_x = NoOperand
    /\ std_out = NotCalled
    /\ std_prev = NoForward
    /\ forwards = 0

SpecDDP == InitDDP /\ [][NextDDP]_vars

\* A plain module in a process of any rank, and the call of the constructor.
InitWrap ==
    /\ numParams \in 1..MaxParams
    /\ world_size \in 1..MaxWorldSize
    /\ rank \in 0..(world_size - 1)
    /\ local_rank \in 0..rank
    /\ wrapped = ""
    /\ ddp_state_for_reversed_params = NoTable
    /\ grad_hooks = [p \in 1..numParams |-> <<>>]
    /\ forward_hooks = <<>>
    /\ grad = [p \in 1..numParams |-> {}]
    /\ phase = "idle"
    /\ forwarded = FALSE
    /\ hasOutput = FALSE
    /\ passLog = <<>>
    /\ parallel_conf = EmptyParallelConfCfg
    /\ parallel_conf_out = ConfPending
    /\ numThreads = 1
    /\ rt_mode = "NORMAL_MODE"
    /\ eager_enabled = FALSE
    /\ lazy_blob_cache = [op_name \in Names |-> NoBlob]
    /\ blob_data = [op_name \in OpNames |-> 0]
    /\ nextId = 1
    /\ builds = [op_name \in Names |-> 0]
    /\ th = [t \in 1..1 |-> IdleFrame]
    /\ lastResolved = [op_name \in Names |-> NoBlob]
    /\ lastFed = [op_name \in Names |-> NoArray]
    /\ failedResolve = [op_name \in Names |-> FALSE]
    /\ sub_x = NoOperand
    /\ sub_y = NoOperand
    /\ sub_fn = ""
    /\ sub_out = NotCalled
    /\ platform = "linux"
    /\ sharing_strategy = DefaultSharingStrategy(platform)
    /\ all_sharing_strategies = DefaultAllSharingStrategies(platform)
    /\ calls = <<>>
    /\ std = NewStd(NoDim, FALSE)
    /\ std_x = NoOperand
    /\ std_out = NotCalled
    /\ std_prev = NoForward
    /\ forwards = 0

SpecWrap == InitWrap /\ [][NextWrap]_vars

\* _GetInterfaceBlobObject applied to any parallel configuration.
InitConf ==
    /\ numParams = 1
    /\ world_size = 1
    /\ rank = 0
    /\ local_rank = 0
    /\ wrapped = ""
    /\ ddp_state_for_reversed_params = NoTable
    /\ grad_hooks = [p \in 1..1 |-> <<>>]
    /\ forward_hooks = <<>>
    /\ grad = [p \in 1..numParams |-> {}]
    /\ phase = "idle"
    /\ forwarded = FALSE
    /\ hasOutput = FALSE
    /\ passLog = <<>>
    /\ parallel_conf \in ParallelConfs
    /\ parallel_conf_out = ConfPending
    /\ numThreads = 1
    /\ rt_mode = "NORMAL_MODE"
    /\ eager_enabled = FALSE
    /\ lazy_blob_cache = [op_name \in Names |-> NoBlob]
    /\ blob_data = [op_name \in OpNames |-> 0]
    /\ nextId = 1
    /\ builds = [op_name \in Names |-> 0]
    /\ th = [t \in 1..1 |-> IdleFrame]
    /\ lastResolved = [op_name \in Names |-> NoBlob]
    /\ lastFed = [op_name \in Names |-> NoArray]
    /\ failedResolve = [op_name \in Names |-> FALSE]
    /\ sub_x = NoOperand
    /\ sub_y = NoOperand
    /\ sub_fn = ""
    /\ sub_out = NotCalled
    /\ platform = "linux"
    /\ sharing_strategy = DefaultSharingStrategy(platform)
    /\ all_sharing_strategies = DefaultAllSharingStrategies(platform)
    /\ calls = <<>>
    /\ std = NewStd(NoDim, FALSE)
    /\ std_x = NoOperand
    /\ std_out = NotCalled
    /\ std_prev = NoForward
    /\ forwards = 0

\* The lazy branch of _GetInterfaceBlobObject up to the call of
\* MakeLazyRefBlobObject.
GetInterfaceBlobObjectConf ==
    /\ parallel_conf_out.raised = "pending"
    /\ parallel_conf_out' = TranslateParallelConf(parallel_conf)
    /\ UNCHANGED <<parallel_conf, ddpVars, ifaceVars, subVars, shareVars, stdVars>>

NextConf == GetInterfaceBlobObjectConf

SpecConf == InitConf /\ [][NextConf]_vars

\* One caller making any sequence of resolve, fetch and feed calls, in either
\* runtime mode, with eager execution enabled or not.
InitIface ==
    /\ numParams = 1
    /\ world_size = 1
    /\ rank = 0
    /\ local_rank = 0
    /\ wrapped = ""
    /\ ddp_state_for_reversed_params = NoTable
    /\ grad_hooks = [p \in 1..1 |-> <<>>]
    /\ forward_hooks = <<>>
    /\ grad = [p \in 1..numParams |-> {}]
    /\ phase = "idle"
    /\ forwarded = FALSE
    /\ hasOutput = FALSE
    /\ passLog = <<>>
    /\ parallel_conf = EmptyParallelConfCfg
    /\ parallel_conf_out = ConfPending
    /\ numThreads = 1
    /\ rt_mode \in {"NORMAL_MODE", "GLOBAL_MODE"}
    /\ eager_enabled \in BOOLEAN
    /\ lazy_blob_cache = [op_name \in Names |-> NoBlob]
    /\ blob_data = [op_name \in OpNames |-> 0]
    /\ nextId = 1
    /\ builds = [op_name \in Names |-> 0]
    /\ th = [t \in 1..1 |-> IdleFrame]
    /\ lastResolved = [op_name \in Names |-> NoBlob]
    /\ lastFed = [op_name \in Names |-> NoArray]
    /\ failedResolve = [op_name \in Names |-> FALSE]
    /\ sub_x = NoOperand
    /\ sub_y = NoOperand
    /\ sub_fn = ""
    /\ sub_out = NotCalled
    /\ platform = "linux"
    /\ sharing_strategy = DefaultSharingStrategy(platform)
    /\ all_sharing_strategies = DefaultAllSharingStrategies(platform)
    /\ calls = <<>>
    /\ std = NewStd(NoDim, FALSE)
    /\ std_x = NoOperand
    /\ std_out = NotCalled
    /\ std_prev = NoForward
    /\ forwards = 0

SpecIface == InitIface /\ [][NextIface]_vars

\* Two threads resolving interface blobs of one session at the same time.
InitConcurrent ==
    /\ numParams = 1
    /\ world_size = 1
    /\ rank = 0
    /\ local_rank = 0
    /\ wrapped = ""
    /\ ddp_state_for_reversed_params = NoTable
    /\ grad_hooks = [p \in 1..1 |-> <<>>]
    /\ forward_hooks = <<>>
    /\ grad = [p \in 1..numParams |-> {}]
    /\ phase = "idle"
    /\ forwarded = FALSE
    /\ hasOutput = FALSE
    /\ passLog = <<>>
    /\ parallel_conf = EmptyParallelConfCfg
    /\ parallel_conf_out = ConfPending
    /\ numThreads = 2
    /\ rt_mode \in {"NORMAL_MODE", "GLOBAL_MODE"}
    /\ eager_enabled \in BOOLEAN
    /\ lazy_blob_cache = [op_name \in Names |-> NoBlob]
    /\ blob_data = [op_name \in OpNames |-> 0]
    /\ nextId = 1
    /\ builds = [op_name \in Names |-> 0]
    /\ th = [t \in 1..2 |-> IdleFrame]
    /\ lastResolved = [op_name \in Names |-> NoBlob]
    /\ lastFed = [op_name \in Names |-> NoArray]
    /\ failedResolve = [op_name \in Names |-> FALSE]
    /\ sub_x = NoOperand
    /\ sub_y = NoOperand
    /\ sub_fn = ""
    /\ sub_out = NotCalled
    /\ platform = "linux"
    /\ sharing_strategy = DefaultSharingStrategy(platform)
    /\ all_sharing_strategies = DefaultAllSharingStrategies(platform)
    /\ calls = <<>>
    /\ std = NewStd(NoDim, FALSE)
    /\ std_x = NoOperand
    /\ std_out = NotCalled
    /\ std_prev = NoForward
    /\ forwards = 0

SpecConcurrent == InitConcurrent /\ [][NextResolve]_vars

\* One call of Subtract or sub on any two operands of which at least one is a
\* tensor.
InitSub ==
    /\ numParams = 1
    /\ world_size = 1
    /\ rank = 0
    /\ local_rank = 0
    /\ wrapped = ""
    /\ ddp_state_for_reversed_params = NoTable
    /\ grad_hooks = [p \in 1..1 |-> <<>>]
    /\ forward_hooks = <<>>
    /\ grad = [p \in 1..numParams |-> {}]
    /\ phase = "idle"
    /\ forwarded = FALSE
    /\ hasOutput = FALSE
    /\ passLog = <<>>
    /\ parallel_conf = EmptyParallelConfCfg
    /\ parallel_conf_out = ConfPending
    /\ numThreads = 1
    /\ rt_mode = "NORMAL_MODE"
    /\ eager_enabled = FALSE
    /\ lazy_blob_cache = [op_name \in Names |-> NoBlob]
    /\ blob_data = [op_name \in OpNames |-> 0]
    /\ nextId = 1
    /\ builds = [op_name \in Names |-> 0]
    /\ th = [t \in 1..1 |-> IdleFrame]
    /\ lastResolved = [op_name \in Names |-> NoBlob]
    /\ lastFed = [op_name \in Names |-> NoArray]
    /\ failedResolve = [op_name \in Names |-> FALSE]
    /\ sub_x \in Tensors \cup Scalars
    /\ sub_y \in Tensors \cup Scalars
    /\ ~(sub_x.kind = "scalar" /\ sub_y.kind = "scalar")
    /\ sub_fn = ""
    /\ sub_out = NotCalled
    /\ platform = "linux"
    /\ sharing_strategy = DefaultSharingStrategy(platform)
    /\ all_sharing_strategies = DefaultAllSharingStrategies(platform)
    /\ calls = <<>>
    /\ std = NewStd(NoDim, FALSE)
    /\ std_x = NoOperand
    /\ std_out = NotCalled
    /\ std_prev = NoForward
    /\ forwards = 0

SpecSub == InitSub /\ [][NextSub]_vars

\* The module just imported on any platform, and any calls of its three
\* sharing-strategy functions.
InitSharing ==
    /\ numParams = 1
    /\ world_size = 1
    /\ rank = 0
    /\ local_rank = 0
    /\ wrapped = ""
    /\ ddp_state_for_reversed_params = NoTable
    /\ grad_hooks = [p \in 1..1 |-> <<>>]
    /\ forward_hooks = <<>>
    /\ grad = [p \in 1..numParams |-> {}]
    /\ phase = "idle"
    /\ forwarded = FALSE
    /\ hasOutput = FALSE
    /\ passLog = <<>>
    /\ parallel_conf = EmptyParallelConfCfg
    /\ parallel_conf_out = ConfPending
    /\ numThreads = 1
    /\ rt_mode = "NORMAL_MODE"
    /\ eager_enabled = FALSE
    /\ lazy_blob_cache = [op_name \in Names |-> NoBlob]
    /\ blob_data = [op_name \in OpNames |-> 0]
    /\ nextId = 1
    /\ builds = [op_name \in Names |-> 0]
    /\ th = [t \in 1..1 |-> IdleFrame]
    /\ lastResolved = [op_name \in Names |-> NoBlob]
    /\ lastFed = [op_name \in Names |-> NoArray]
    /\ failedResolve = [op_name \in Names |-> FALSE]
    /\ sub_x = NoOperand
    /\ sub_y = NoOperand
    /\ sub_fn = ""
    /\ sub_out = NotCalled
    /\ platform \in Platforms
    /\ sharing_strategy = DefaultSharingStrategy(platform)
    /\ all_sharing_strategies = DefaultAllSharingStrategies(platform)
    /\ calls = <<>>
    /\ std = NewStd(NoDim, FALSE)
    /\ std_x = NoOperand
    /\ std_out = NotCalled
    /\ std_prev = NoForward
    /\ forwards = 0

SpecSharing == InitSharing /\ [][NextSharing]_vars

\* One Std instance of any dim and keepdim, called on any inputs.
InitStd ==
    /\ numParams = 1
    /\ world_size = 1
    /\ rank = 0
    /\ local_rank = 0
    /\ wrapped = ""
    /\ ddp_state_for_reversed_params = NoTable
    /\ grad_hooks = [p \in 1..1 |-> <<>>]
    /\ forward_hooks = <<>>
    /\ grad = [p \in 1..numParams |-> {}]
    /\ phase = "idle"
    /\ forwarded = FALSE
    /\ hasOutput = FALSE
    /\ passLog = <<>>
    /\ parallel_conf = EmptyParallelConfCfg
    /\ parallel_conf_out = ConfPending
    /\ numThreads = 1
    /\ rt_mode = "NORMAL_MODE"
    /\ eager_enabled = FALSE
    /\ lazy_blob_cache = [op_name \in Names |-> NoBlob]
    /\ blob_data = [op_name \in OpNames |-> 0]
    /\ nextId = 1
    /\ builds = [op_name \in Names |-> 0]
    /\ th = [t \in 1..1 |-> IdleFrame]
    /\ lastResolved = [op_name \in Names |-> NoBlob]
    /\ lastFed = [op_name \in Names |-> NoArray]
    /\ failedResolve = [op_name \in Names |-> FALSE]
    /\ sub_x = NoOperand
    /\ sub_y = NoOperand
    /\ sub_fn = ""
    /\ sub_out = NotCalled
    /\ platform = "linux"
    /\ sharing_strategy = DefaultSharingStrategy(platform)
    /\ all_sharing_strategies = DefaultAllSharingStrategies(platform)
    /\ calls = <<>>
    /\ std \in {NewStd(dim, keepdim) : dim \in StdDims, keepdim \in BOOLEAN}
    /\ std_x = NoOperand
    /\ std_out = NotCalled
    /\ std_prev = NoForward
    /\ forwards = 0

SpecStd == InitStd /\ [][NextStd]_vars

\* ------------------------------------------------------------------------
\* Properties of the DistributedDataParallel wrapper
\* ------------------------------------------------------------------------
RECURSIVE Concat(_)
Concat(log) == IF log = <<>> THEN <<>> ELSE Head(log).reduced \o Concat(Tail(log))

\* The parameters handed to allreduce_module in the current pass, in call order.
CollectiveSeq == Concat(passLog)

TimesReduced(p) == Cardinality({i \in 1..Len(CollectiveSeq) : CollectiveSeq[i] = p})

\* Hook invocations of the pass that called allreduce_module at least once.
Batches == Cardinality({i \in 1..Len(passLog) : passLog[i].reduced # <<>>})

FiredSeq == [i \in 1..Len(passLog) |-> passLog[i].param]

Ready(p) == ddp_state_for_reversed_params[p][1]

Reduced(p) == ddp_state_for_reversed_params[p][2]

TableClean == \A p \in Params : ddp_state_for_reversed_params[p] = <<FALSE, FALSE>>

\* C1: in every backward pass in which every parameter's gradient hook fires
\* (in any order), every parameter's gradient is handed to the all-reduce
\* collective exactly once in that pass: never twice, and once all hooks have
\* fired never zero times.
C1_ExactlyOncePerPass ==
    /\ \A p \in Params : TimesReduced(p) <= 1
    /\ (phase = "backward" /\ FiredParams = Params)
           => \A p \in Params : TimesReduced(p) = 1

\* C2: whenever a hook marks a parameter Reduced, every parameter before it in
\* the table (reverse registration order) is Ready at that moment.
C2_NoReductionPastNotReady ==
    [][\A p \in Params :
          (~Reduced(p) /\ ddp_state_for_reversed_params'[p][2])
              => \A q \in Params :
                    TablePos(numParams, q) < TablePos(numParams, p)
                        => ddp_state_for_reversed_params'[q][1]]_vars

\* C2 witness: a hook was blocked, and a later hook reduced it together with
\* the parameter it was waiting for.
C2_Witness ==
    /\ phase = "backward"
    /\ \E i, j \in 1..Len(passLog) :
          /\ i < j
          /\ passLog[i].reduced = <<>>
          /\ Len(passLog[j].reduced) >= 2

\* C3: once the hooks of all parameters have fired in a pass, in whatever
\* order, every parameter of the table is marked Reduced.
C3_AllReducedAfterAllHooks ==
    (phase = "backward" /\ FiredParams = Params) => \A p \in Params : Reduced(p)

\* C3 witness: three parameters, a pass after a forward pass, all hooks fired,
\* and not in table order.
C3_Witness ==
    /\ numParams = 3
    /\ forwarded
    /\ phase = "backward"
    /\ FiredParams = Params
    /\ FiredSeq # TableOrder(numParams)
    /\ \A p \in Params : Reduced(p)

\* C4: right after the forward hook ran, every entry of the table reads
\* (False, False), whatever the previous backward pass left in it.
C4_ForwardHookResets ==
    (phase = "idle" /\ forwarded) => TableClean

\* C4 witness: the forward hook ran after a pass that ended with one parameter
\* reduced and another ready but not reduced.
C4_Witness ==
    /\ phase = "idle"
    /\ forwarded
    /\ TableClean
    /\ \E i, j \in 1..Len(passLog) :
          passLog[i].reduced # <<>> /\ passLog[j].reduced = <<>>

\* C5: for any sequence of forward and backward passes, at the start of each
\* backward pass, before its first gradient hook fires, every entry of the
\* table is (False, False).
C5_CleanAtBackwardStart ==
    (phase = "backward" /\ passLog = <<>>) => TableClean

\* C6: parameters [p1, p2, p3], table order [p3, p2, p1], hooks firing in the
\* order p2, p3, p1 after a forward pass: the p2 hook reduces nothing, the p3
\* hook reduces p3 and p2, the p1 hook reduces p1, and the pass has two batches.
C6_Scenario ==
    (/\ numParams = 3
     /\ phase = "backward"
     /\ forwarded
     /\ Len(passLog) <= 3
     /\ FiredSeq = SubSeq(<<2, 3, 1>>, 1, Len(passLog)))
        => /\ Len(passLog) >= 1 => passLog[1].reduced = <<>>
           /\ Len(passLog) >= 2 => passLog[2].reduced = <<3, 2>>
           /\ Len(passLog) = 3
                 => /\ passLog[3].reduced = <<1>>
                    /\ Batches = 2
                    /\ \A p \in Params : Reduced(p)

\* C6 witness: the scenario has run to its end.
C6_Witness ==
    /\ numParams = 3
    /\ phase = "backward"
    /\ forwarded
    /\ FiredSeq = <<2, 3, 1>>
    /\ Batches = 2

\* ------------------------------------------------------------------------
\* Properties of the parallel-configuration translation
\* ------------------------------------------------------------------------
\* C10: the structured configuration _GetInterfaceBlobObject builds from a raw
\* one has the same device tag, the same device names in the same order, none
\* added or dropped, and, when a hierarchy is present, the same hierarchy
\* dimensions in the same order; a configuration already in cfg form is
\* passed through unchanged.
C10_TranslationPreserves ==
    (parallel_conf_out.raised = "")
        => /\ parallel_conf_out.conf.form = "cfg"
           /\ parallel_conf_out.conf.device_tag = parallel_conf.device_tag
           /\ parallel_conf_out.conf.device_name = parallel_conf.device_name
           /\ parallel_conf.has_hierarchy
                 => /\ parallel_conf_out.conf.has_hierarchy
                    /\ parallel_conf_out.conf.hierarchy_dim = parallel_conf.hierarchy_dim
           /\ parallel_conf.form = "cfg" => parallel_conf_out.conf = parallel_conf

\* C10 witness: a raw configuration with two device names and a hierarchy of
\* two different dimensions has been translated.
C10_Witness ==
    /\ parallel_conf.form = "pb"
    /\ Len(parallel_conf.device_name) = 2
    /\ parallel_conf.device_name[1] # parallel_conf.device_name[2]
    /\ parallel_conf.has_hierarchy
    /\ parallel_conf.hierarchy_dim = <<2, 1>>
    /\ parallel_conf_out.raised = ""
    /\ parallel_conf_out.conf.hierarchy_dim = <<2, 1>>

\* ------------------------------------------------------------------------
\* Properties of the interface-blob layer
\* ------------------------------------------------------------------------
\* Number of LogicalRun dispatches a call has issued.
Dispatches(trace) == Cardinality({i \in 1..Len(trace) : trace[i] = "LogicalRun"})

Has(trace, event) == \E i \in 1..Len(trace) : trace[i] = event

\* Thread t has finished the call `kind` without raising and not yet returned.
Finished(t, kind) == th[t].pc = "done" /\ th[t].kind = kind /\ th[t].raised = ""

\* C7: resolving the same op name twice in one session returns the identical
\* blob both times and only the first call dispatches a build: a resolve
\* dispatches one build on a cache miss and none on a hit, and a resolve of a
\* name resolved before is a hit that returns the blob the earlier call returned.
C7_CacheIdempotence ==
    \A t \in Threads :
        Finished(t, "GetEagerInterfaceBlob")
            => /\ Dispatches(th[t].trace)
                     = (IF Has(th[t].trace, "cache_miss") THEN 1 ELSE 0)
               /\ lastResolved[th[t].op_name] # NoBlob
                     => /\ th[t].blob = lastResolved[th[t].op_name]
                        /\ Dispatches(th[t].trace) = 0
                        /\ builds[th[t].op_name] <= 1

\* C7 witness: a second resolve of a name has finished with the blob the first
\* one built and returned.
C7_Witness ==
    \E t \in Threads :
        /\ Finished(t, "GetEagerInterfaceBlob")
        /\ lastResolved[th[t].op_name] # NoBlob
        /\ th[t].blob = lastResolved[th[t].op_name]
        /\ builds[th[t].op_name] = 1
        /\ Dispatches(th[t].trace) = 0

\* C8: when two callers resolve the same never-before-seen op name at the same
\* time, at most one CreateBlob build runs for that name and both callers get
\* the same cached blob.
C8_AtMostOneMaterialization ==
    /\ \A op_name \in OpNames : builds[op_name] <= 1
    /\ \A t \in Threads :
          Finished(t, "GetEagerInterfaceBlob")
              => th[t].blob = lazy_blob_cache[th[t].op_name]

ConversionFails(op_name, ndarray) ==
    FeedBuild([NoBlobObject EXCEPT !.op_name = op_name], ndarray).raised # ""

FeedKinds == {"FeedValueToInterfaceBlob", "FeedValueToInterfaceBlobObject"}

\* C11: a feed whose array shape or element type cannot be converted fails
\* before any LogicalRun is issued and without any effect: the call has not
\* synchronized the session and has created no blob-cache entry.
C11_ConversionFailsBeforeDispatch ==
    \A t \in Threads :
        (/\ th[t].pc = "done"
         /\ th[t].kind \in FeedKinds
         /\ ConversionFails(th[t].op_name, th[t].ndarray))
            => /\ th[t].raised # ""
               /\ Dispatches(th[t].trace) = 0
               /\ ~Has(th[t].trace, "sync_default_session")
               /\ ~Has(th[t].trace, "cache_miss")

\* C12: when the local rank differs from the rank, DistributedDataParallel
\* fails with an assertion, and the module has then no readiness table, no
\* gradient hook on any parameter and no forward hook: it is as it was.
C12_RankAssertionBeforeAnyEffect ==
    /\ (wrapped # "" /\ local_rank # rank) => wrapped = "AssertionError"
    /\ wrapped = "AssertionError"
          => /\ local_rank # rank
             /\ Module = PlainModule(numParams)

\* C12 witness: the constructor was called in a process whose local rank is
\* not its rank, on a module of several parameters, and raised.
C12_Witness ==
    /\ wrapped = "AssertionError"
    /\ local_rank # rank
    /\ numParams >= 2

Count(trace, event) == Cardinality({i \in 1..Len(trace) : trace[i] = event})

\* C13: a resolve, fetch or feed of an op name the session cannot resolve ends
\* with the resolver's not-found error reaching the caller, after one lookup
\* that is the last thing the call did, and no blob is ever built or cached
\* under that name.
C13_UnknownNameFails ==
    /\ \A op_name \in UnknownOpNames :
          lazy_blob_cache[op_name] = NoBlob /\ builds[op_name] = 0
    /\ \A t \in Threads :
          (th[t].pc # "idle" /\ th[t].op_name \in UnknownOpNames)
              => /\ th[t].pc \in {"CreateBlob", "done"}
                 /\ th[t].pc = "done"
                       => /\ th[t].raised = "NotFound"
                          /\ Count(th[t].trace, "JobName4InterfaceOpName") = 1
                          /\ th[t].trace[Len(th[t].trace)] = "JobName4InterfaceOpName"

\* C13 witness: a feed by an unknown name has raised the not-found error from
\* inside its build, after blobs of other names were cached.
C13_Witness ==
    \E t \in Threads :
        /\ th[t].pc = "done"
        /\ th[t].kind = "FeedValueToInterfaceBlob"
        /\ th[t].op_name \in UnknownOpNames
        /\ th[t].raised = "NotFound"
        /\ Has(th[t].trace, "LogicalRun")
        /\ \E op_name \in OpNames : lazy_blob_cache[op_name] # NoBlob

\* C14: every gradient handed to allreduce_module went through exactly one
\* division by world_size before, whether it is the gradient of the parameter
\* whose hook is running or the stored gradient of another parameter.
C14_DividedOnceBeforeAllReduce ==
    \A i \in 1..Len(passLog) :
        \A j \in 1..Len(passLog[i].values) : passLog[i].values[j] = {1}

\* C14 witness: one hook invocation all-reduced the gradient of its own
\* parameter and the stored gradient of another one.
C14_Witness ==
    \E i \in 1..Len(passLog) :
        /\ Len(passLog[i].values) >= 2
        /\ passLog[i].reduced[1] = passLog[i].param
        /\ passLog[i].reduced[2] # passLog[i].param
        /\ \A j \in 1..Len(passLog[i].values) : passLog[i].values[j] = {1}

\* Number of builds of a call that are running after its first i events.
Depth(trace, i) ==
    Cardinality({k \in 1..i : trace[k] = "LogicalRun"})
        - Cardinality({k \in 1..i : trace[k] = "LogicalRun_end"})

\* C15: a public call that returns has dispatched one build (a resolve served
\* from the cache: none), every build it dispatched has completed, and it
\* dispatched no build while another build of the call was running.
C15_OneBuildPerCall ==
    \A t \in Threads :
        (th[t].pc = "done" /\ th[t].raised = "")
            => /\ Dispatches(th[t].trace)
                     = (IF th[t].kind = "GetEagerInterfaceBlob"
                           /\ Has(th[t].trace, "cache_hit") THEN 0 ELSE 1)
               /\ Depth(th[t].trace, Len(th[t].trace)) = 0
               /\ \A i \in 1..Len(th[t].trace) : Depth(th[t].trace, i) <= 1

\* C16: in NORMAL_MODE every resolve, fetch and feed call synchronizes the
\* default session, and does so before its first session lookup and before
\* its first dispatch; in any other mode no call synchronizes.
C16_SyncFirstIffNormal ==
    \A t \in Threads :
        /\ rt_mode = "NORMAL_MODE"
              => /\ th[t].trace # <<>> => th[t].trace[1] = "sync_default_session"
                 /\ th[t].pc = "done" => Has(th[t].trace, "sync_default_session")
        /\ rt_mode # "NORMAL_MODE" => ~Has(th[t].trace, "sync_default_session")

\* C16 witness: in NORMAL_MODE a fetch has returned a value; it synchronized
\* first and looked up the session and dispatched afterwards.
C16_Witness ==
    \E t \in Threads :
        /\ rt_mode = "NORMAL_MODE"
        /\ Finished(t, "GetInterfaceBlobValue")
        /\ th[t].trace[1] = "sync_default_session"
        /\ th[t].trace[2] = "GetDefaultSession"
        /\ Has(th[t].trace, "LogicalRun")

\* ------------------------------------------------------------------------
\* Properties of Subtract
\* ------------------------------------------------------------------------
\* C17: Subtract.forward(x, y) returns x - y, as np.subtract gives it, for a
\* scalar and a tensor, a tensor and a scalar, tensors of equal shape, x of
\* shape (1,), y of shape (1,), and any other broadcastable pair of tensors.
C17_SubtractReturnsDifference ==
    (sub_fn = "Subtract" /\ Broadcastable(sub_x.shape, sub_y.shape))
        => sub_out = np_subtract(sub_x, sub_y)

\* ------------------------------------------------------------------------
\* Properties of the sharing strategy
\* ------------------------------------------------------------------------
\* The argument of the last of the first n calls that was a set_sharing_strategy
\* call and did not raise; the platform default if there is none.
RECURSIVE LastSucceeded(_)
LastSucceeded(n) ==
    IF n = 0 THEN DefaultSharingStrategy(platform)
    ELSE IF calls[n].fn = "set_sharing_strategy" /\ calls[n].raised = ""
    THEN calls[n].arg
    ELSE LastSucceeded(n - 1)

\* C18: get_sharing_strategy returns the argument of the most recent
\* set_sharing_strategy call that succeeded, or the platform default if none
\* did; that value is a member of get_all_sharing_strategies(); and a
\* set_sharing_strategy call with an argument outside that set fails and
\* leaves the strategy as it was.
C18_SharingStrategy ==
    /\ sharing_strategy = LastSucceeded(Len(calls))
    /\ sharing_strategy \in all_sharing_strategies
    /\ \A i \in 1..Len(calls) :
          /\ calls[i].fn = "get_sharing_strategy"
                => /\ calls[i].ret = LastSucceeded(i - 1)
                   /\ calls[i].ret \in all_sharing_strategies
          /\ calls[i].fn = "get_all_sharing_strategies"
                => calls[i].ret_all = all_sharing_strategies
          /\ calls[i].fn = "set_sharing_strategy"
                => (calls[i].raised # "" <=> calls[i].arg \notin all_sharing_strategies)

\* C18 witness: a strategy was set, a later call with an unsupported strategy
\* failed, and get_sharing_strategy then returned the one set first.
C18_Witness ==
    /\ Len(calls) >= 3
    /\ calls[1].fn = "set_sharing_strategy"
    /\ calls[1].raised = ""
    /\ calls[1].arg # DefaultSharingStrategy(platform)
    /\ calls[2].fn = "set_sharing_strategy"
    /\ calls[2].raised = "AssertionError"
    /\ calls[3].fn = "get_sharing_strategy"
    /\ calls[3].ret = calls[1].arg

\* ------------------------------------------------------------------------
\* Further properties of the DistributedDataParallel wrapper
\* ------------------------------------------------------------------------
\* The parameters of the longest prefix of the table whose entries are all Ready.
ReadyPrefix ==
    {p \in Params :
        \A q \in Params : TablePos(numParams, q) <= TablePos(numParams, p) => Ready(q)}

\* C19: after every invocation of an allreduce hook in a backward pass, the
\* parameters marked Reduced are exactly those of the longest all-Ready prefix
\* of the table, and every Reduced parameter is Ready.
C19_ReducedIsReadyPrefix ==
    (phase = "backward" /\ passLog # <<>>)
        => /\ {p \in Params : Reduced(p)} = ReadyPrefix
           /\ \A p \in Params : Reduced(p) => Ready(p)

\* C19 witness: in a pass after a forward pass a hook has just reduced a
\* prefix of the table, and a Ready parameter behind a gap is not Reduced.
C19_Witness ==
    /\ phase = "backward"
    /\ forwarded
    /\ passLog # <<>>
    /\ passLog[Len(passLog)].reduced # <<>>
    /\ \E p \in Params : Ready(p) /\ ~Reduced(p)
    /\ {p \in Params : Reduced(p)} = ReadyPrefix

\* The parameters whose hooks fired in the first i invocations of the pass.
FiredUpTo(i) == {passLog[k].param : k \in 1..i}

FlagCleared ==
    \E p \in Params :
        \/ ddp_state_for_reversed_params[p][1] /\ ~ddp_state_for_reversed_params'[p][1]
        \/ ddp_state_for_reversed_params[p][2] /\ ~ddp_state_for_reversed_params'[p][2]

\* C21: only the forward hook takes a ready or reduced flag from True to False;
\* between two resets a ready flag therefore never goes back to False and a
\* reduced flag goes from False to True at most once.
C21_FlagsMonotoneBetweenResets == [][FlagCleared => hook]_vars

\* C21 witness: two hooks have fired since the reset; one parameter is Ready
\* and Reduced, another is Ready and kept waiting.
C21_Witness ==
    /\ phase = "backward"
    /\ forwarded
    /\ Len(passLog) >= 2
    /\ \E p, q \in Params : Ready(p) /\ Reduced(p) /\ Ready(q) /\ ~Reduced(q)

\* A step is one invocation of an allreduce hook.
HookStep == phase = "backward" /\ Len(passLog') = Len(passLog) + 1

\* C22: in every walk, an entry whose second flag is already set is not
\* all-reduced again and does not end the walk (every not yet reduced entry
\* of the all-Ready prefix behind it is reduced), and no entry is reduced
\* ahead of a predecessor that is not Ready.
C22_SkipReducedEntries ==
    [][HookStep =>
          LET e == passLog'[Len(passLog')]
          IN  /\ \A j \in 1..Len(e.reduced) : ~Reduced(e.reduced[j])
              /\ \A p \in Params :
                    (/\ ~Reduced(p)
                     /\ \A q \in Params :
                           TablePos(numParams, q) <= TablePos(numParams, p)
                               => ddp_state_for_reversed_params'[q][1])
                        => \E j \in 1..Len(e.reduced) : e.reduced[j] = p
              /\ \A j \in 1..Len(e.reduced) :
                    \A q \in Params :
                        TablePos(numParams, q) < TablePos(numParams, e.reduced[j])
                            => ddp_state_for_reversed_params'[q][1]]_vars

\* C22 witness: after a reset, a hook reduced the head of the table, and a
\* later hook walked past it and reduced entries behind it.
C22_Witness ==
    /\ phase = "backward"
    /\ forwarded
    /\ \E i, j \in 1..Len(passLog) :
          /\ i < j
          /\ passLog[i].reduced # <<>>
          /\ passLog[i].reduced[1] = TableOrder(numParams)[1]
          /\ passLog[j].reduced # <<>>
          /\ \A k \in 1..Len(passLog[j].reduced) :
                \A m \in 1..Len(passLog[i].reduced) :
                    passLog[j].reduced[k] # passLog[i].reduced[m]

\* C23: an allreduce hook returns the all-reduced gradient (ret is not None)
\* exactly when its parameter goes from not Reduced to Reduced in this
\* invocation; when it returns None its parameter's gradient was not handed to
\* the collective, and the parameter was already Reduced or has a predecessor
\* that is not Ready.
C23_ReturnsReducedGradIffReduced ==
    [][HookStep =>
          LET e == passLog'[Len(passLog')]
          IN  /\ e.ret <=> (/\ ~Reduced(e.param)
                            /\ ddp_state_for_reversed_params'[e.param][2])
              /\ ~e.ret
                    => /\ \A j \in 1..Len(e.reduced) : e.reduced[j] # e.param
                       /\ \/ Reduced(e.param)
                          \/ \E q \in Params :
                                /\ TablePos(numParams, q) < TablePos(numParams, e.param)
                                /\ ~ddp_state_for_reversed_params'[q][1]]_vars

\* C23 witness: in one pass a hook returned None because a predecessor of its
\* parameter was not Ready, and the hook of another parameter returned its
\* all-reduced gradient while reducing the first one in place.
C23_Witness ==
    /\ phase = "backward"
    /\ forwarded
    /\ \E i, j \in 1..Len(passLog) :
          /\ i < j
          /\ ~passLog[i].ret
          /\ passLog[j].ret
          /\ \E k \in 1..Len(passLog[j].reduced) :
                passLog[j].reduced[k] = passLog[i].param

\* C24: in a backward pass the parameters handed to the all-reduce collective
\* are, in call order, the table taken from its head (reverse registration
\* order), whatever order the hooks fire in, and the whole table once every
\* hook has fired; the sequence is therefore the same on every replica.
C24_CollectivesInTableOrder ==
    phase = "backward"
        => /\ Len(CollectiveSeq) <= numParams
           /\ CollectiveSeq = SubSeq(TableOrder(numParams), 1, Len(CollectiveSeq))
           /\ FiredParams = Params => CollectiveSeq = TableOrder(numParams)

\* Asynchronous paths a call of this kind opens itself, besides the CreateBlob
\* path a cache miss opens.
OwnAsyncPaths(kind) ==
    IF kind \in {"GetInterfaceBlobValue", "FeedValueToInterfaceBlob"} THEN 1 ELSE 0

\* C25: a call never invokes Yield more often than it has asynchronous paths
\* (CreateBlob on a cache miss, the build of a fetch, the build of a feed by
\* name); when it returns, every path has invoked it exactly once; when it
\* raises, the path whose build failed has not invoked it and the caller gets
\* the exception and no blob or value.
C25_YieldOncePerPath ==
    \A t \in Threads :
        LET f     == th[t]
            paths == Count(f.trace, "cache_miss") + OwnAsyncPaths(f.kind)
        IN  /\ Count(f.trace, "Yield") <= paths
            /\ (f.pc = "done" /\ f.raised = "") => Count(f.trace, "Yield") = paths
            /\ (f.pc = "done" /\ f.raised # "")
                  => /\ f.kind # "FeedValueToInterfaceBlobObject"
                           => Count(f.trace, "Yield") < paths
                     /\ f.value = NoArray
                     /\ f.kind = "GetEagerInterfaceBlob" => f.blob = NoBlob

\* C25 witness: a fetch on an empty cache has returned a value; its CreateBlob
\* path and its own path have each yielded once.
C25_Witness ==
    \E t \in Threads :
        /\ Finished(t, "GetInterfaceBlobValue")
        /\ Has(th[t].trace, "cache_miss")
        /\ Count(th[t].trace, "Yield") = 2
        /\ th[t].value # NoArray

\* C26: an interface op whose attribute does not list exactly one output
\* binding never resolves: every call that resolves it ends in an
\* AssertionError raised by a build that a cache miss dispatched, also after
\* earlier failed attempts, and neither the cache nor any caller ever holds a
\* blob for the name.
C26_OutputBindingAssertion ==
    \A op_name \in OpNames :
        Len(OutputBns(op_name)) # 1 =>
            /\ lazy_blob_cache[op_name] = NoBlob
            /\ builds[op_name] = 0
            /\ lastResolved[op_name] = NoBlob
            /\ \A t \in Threads :
                   (th[t].op_name = op_name /\ th[t].pc = "done") =>
                       /\ th[t].raised = "AssertionError"
                       /\ th[t].blob = NoBlob
                       /\ th[t].value = NoArray
                       /\ Has(th[t].trace, "cache_miss")
                       /\ Has(th[t].trace, "LogicalRun")
                       /\ ~Has(th[t].trace, "Yield")

\* A second resolution of the op with two output bindings has failed like the
\* first, after its own lazy-ref blob object had been made.
C26_Witness ==
    \E t \in Threads :
        /\ th[t].kind = "GetEagerInterfaceBlob"
        /\ th[t].op_name = "v3"
        /\ th[t].pc = "done"
        /\ th[t].raised = "AssertionError"
        /\ failedResolve["v3"]
        /\ Has(th[t].trace, "MakeLazyRefBlobObject")

\* The raw parallel configuration of the op has the hierarchy field with no
\* dimension in it.
EmptyHierarchy(op_name) ==
    LET conf == ParallelConfOf(op_name)
    IN  conf.form = "pb" /\ conf.has_hierarchy /\ Len(conf.hierarchy_dim) = 0

\* C27: when the raw parallel configuration of an op has its hierarchy field
\* present with zero dimensions, every call that reads it (a session without
\* eager execution) fails with an AssertionError before the builder is asked
\* for a lazy-ref blob object: no MakeLazyRefBlobObject happens for the name
\* and no blob object of it exists in the cache or with any caller.
C27_EmptyHierarchyAssertion ==
    \A op_name \in OpNames :
        (EmptyHierarchy(op_name) /\ ~eager_enabled) =>
            /\ lazy_blob_cache[op_name] = NoBlob
            /\ lastResolved[op_name] = NoBlob
            /\ \A t \in Threads :
                   th[t].op_name = op_name =>
                       /\ ~Has(th[t].trace, "MakeLazyRefBlobObject")
                       /\ th[t].created = NoBlob
                       /\ th[t].blob = NoBlob
                       /\ th[t].pc \in {"CreateBlob", "done"}
                       /\ th[t].pc = "done" => th[t].raised = "AssertionError"

\* A resolution of the op with the empty hierarchy has failed inside the
\* build it dispatched.
C27_Witness ==
    /\ ~eager_enabled
    /\ \E t \in Threads :
           /\ th[t].op_name = "v4"
           /\ EmptyHierarchy(th[t].op_name)
           /\ th[t].pc = "done"
           /\ th[t].raised = "AssertionError"
           /\ Has(th[t].trace, "LogicalRun")
           /\ ~Has(th[t].trace, "MakeLazyRefBlobObject")

\* The blob wraps its blob object as the placement attribute tells, under the
\* logical blob id of the op and its single output binding.
WellClassified(b, op_name) ==
    /\ b.kind = (IF b.blob_object.is_mirrored THEN "EagerMirroredBlob"
                                              ELSE "EagerConsistentBlob")
    /\ b.blob_object.is_mirrored = IsMirrored(op_name)
    /\ Len(OutputBns(op_name)) = 1
    /\ b.lbi = [op_name |-> op_name, blob_name |-> OutputBns(op_name)[1]]

\* C28: every blob a resolution created, cached or returned, and every blob
\* a fetch wrapped, is a Mirrored blob exactly when its blob object's
\* placement attribute reports is_mirrored and a Consistent blob otherwise,
\* and its logical blob id carries the op name and the op's single output
\* binding; the blob a fetch wraps has the kind, the logical blob id and the
\* blob object of the blob the resolution inside it returned.
C28_MirroredIffPlacementMirrored ==
    /\ \A op_name \in OpNames :
           /\ lazy_blob_cache[op_name] # NoBlob
                 => WellClassified(lazy_blob_cache[op_name], op_name)
           /\ lastResolved[op_name] # NoBlob
                 => WellClassified(lastResolved[op_name], op_name)
    /\ \A t \in Threads :
           /\ th[t].created # NoBlob => WellClassified(th[t].created, th[t].op_name)
           /\ th[t].blob # NoBlob => WellClassified(th[t].blob, th[t].op_name)
           /\ th[t].remote_blob # NoBlob
                 => /\ WellClassified(th[t].remote_blob, th[t].op_name)
                    /\ th[t].remote_blob.kind = th[t].blob.kind
                    /\ th[t].remote_blob.lbi = th[t].blob.lbi
                    /\ th[t].remote_blob.blob_object = th[t].blob.blob_object

\* A fetch has wrapped the blob object of the mirrored op as a Mirrored blob
\* while the blob resolved for the other op is a Consistent one.
C28_Witness ==
    /\ lastResolved["v1"] # NoBlob
    /\ lastResolved["v1"].kind = "EagerConsistentBlob"
    /\ \E t \in Threads :
           /\ Finished(t, "GetInterfaceBlobValue")
           /\ th[t].op_name = "v2"
           /\ th[t].remote_blob.kind = "EagerMirroredBlob"
           /\ th[t].blob.kind = "EagerMirroredBlob"

\* Event a occurs in the trace before an occurrence of event b.
Before(trace, a, b) ==
    \E i, j \in 1..Len(trace) : i < j /\ trace[i] = a /\ trace[j] = b

\* C29: FeedValueToInterfaceBlob pushes only after the resolution of its op
\* name has returned a blob (from the cache, or from the build of a miss),
\* and the push writes the blob of exactly the resolved blob object, which is
\* the blob the session holds for the op name, and no other blob; a call
\* whose resolution raised has pushed nothing and changed no blob.
C29_FeedResolvesThenPushes ==
    [][
        /\ \A t \in Threads :
               th'[t].kind = "FeedValueToInterfaceBlob" =>
                   /\ Has(th'[t].trace, "FeedValueToEagerBlob") =>
                          /\ th'[t].blob # NoBlob
                          /\ th'[t].blob = lazy_blob_cache'[th'[t].op_name]
                          /\ \/ Before(th'[t].trace, "cache_hit", "FeedValueToEagerBlob")
                             \/ Before(th'[t].trace, "Yield", "FeedValueToEagerBlob")
                   /\ (th'[t].pc = "done" /\ th'[t].blob = NoBlob) =>
                          /\ th'[t].raised # ""
                          /\ ~Has(th'[t].trace, "FeedValueToEagerBlob")
                          /\ blob_data' = blob_data
        /\ blob_data' # blob_data =>
               \E t \in Threads :
                   /\ th[t].pc = "FeedValueToInterfaceBlobObject"
                   /\ th'[t].pc = "done"
                   /\ th[t].blob # NoBlob
                   /\ th[t].kind = "FeedValueToInterfaceBlob" =>
                          /\ th[t].blob = lazy_blob_cache[th[t].op_name]
                          /\ th[t].blob.blob_object.op_name = th[t].op_name
                   /\ blob_data' = [blob_data EXCEPT
                                       ![th[t].blob.blob_object.op_name] =
                                           th[t].ndarray.data]
    ]_vars

\* A feed by name of the second op has missed the cache, resolved the blob
\* and pushed its array into that blob only.
C29_Witness ==
    \E t \in Threads :
        /\ Finished(t, "FeedValueToInterfaceBlob")
        /\ th[t].op_name = "v2"
        /\ Before(th[t].trace, "cache_miss", "FeedValueToEagerBlob")
        /\ blob_data["v2"] = th[t].ndarray.data
        /\ blob_data["v2"] # blob_data["v1"]

\* ------------------------------------------------------------------------
\* Properties of Std
\* ------------------------------------------------------------------------
\* The product of the sizes of the dimensions of shape listed in axis.
ReducedCount(shape, axis) == MulShape(1, shape, axis, 1)

\* C30: after every forward call on a Std instance that reduced some
\* dimension, the first and the later ones alike, reduce_count is the product
\* of the sizes of the reduced dimensions of that call's input and the result
\* is the standard deviation a fresh Std computes; a call on the input of the
\* call before it returns what that call returned.
C30_ReduceCountIsProductOfReducedSizes ==
    (forwards > 0 /\ std_out.raised = "" /\ Len(std.axis) > 0) =>
        /\ std.reduce_count = ReducedCount(std_x.shape, std.axis)
        /\ std_out = std_op(std_x, std.dim, std.keepdim)
        /\ (std_prev.x = std_x /\ std_prev.out.raised = "")
              => std_out = std_prev.out

====
